---- MODULE Spec2Model ----
(***************************************************************************)
(* Model of imsdly's asynchronous thumbnail cache                          *)
(* (src/ui/widgets/sd_card/file_list.py, class ThumbnailCache).            *)
(*                                                                         *)
(* Three threads share the ThumbnailCache object without any lock: the UI  *)
(* thread, which calls get, get_async, put and clear one call at a time,   *)
(* and the two daemon worker threads started by __init__, which run        *)
(* _worker.  Every access of a thread to shared state (cache, loading,     *)
(* callbacks, queue) is one step of the model, so the threads interleave   *)
(* between the statements of the source as CPython threads do.             *)
(***************************************************************************)
EXTENDS Integers, Sequences, FiniteSets, TLC

\* ---------------------------------------------------------------- bounds
\* Number of get_async calls the UI thread issues in a behaviour.
MaxCalls == 3
\* Number of events in a behaviour that disturb the plain request/complete
\* cycle: a clear() call, a put() call, or a job that fails (its file is
\* missing, or its generation fails).
MaxEvents == 1

\* Number of thumbnail generations followed statement by statement.
MaxDecodes == 2

\* Files shown by the thumbnail view, times update_view builds the view, and
\* rewrites of a file's content (changes of modification time) in a behaviour.
NumFiles == 3
MaxViews == 2
MaxTouches == 1
\* Times the scroll timer runs _load_visible_thumbnails in a behaviour.
MaxScrolls == 1
\* Calls of generate_video_thumbnail that reach its cache in a behaviour.
MaxMemoCalls == 52
\* Files that can be on the card whose catalogue the panel shows.
NumCardFiles == 3
\* Monitor threads that start() creates in a behaviour.
MaxStarts == 3
\* Changes of the machine's drives (a drive listed or no longer listed, a
\* path readable or no longer readable) in a behaviour.
MaxDriveChanges == 3

\* ------------------------------------------------------- program constants
\* num_workers = 2
NumWorkers == 2
\* for _ in range(5): a worker dequeues at most 5 jobs per batch
BatchSize == 5
\* get() returns None for a key that is not cached; a cache slot holding
\* NoPixmap models "key not in self.cache".
NoPixmap == 0
\* The size generate_video_thumbnail trims its cache to.
StdCacheLimit == 50

\* The cache keys f"{file_path}_{w}x{h}" the UI thread asks for.
Keys == {"a", "b"}
Workers == 1..NumWorkers
\* One identity per get_async call: the callback object passed to it.
RegIds == 1..MaxCalls
\* Identities of the list objects stored in self.callbacks (0: no entry).
ListIds == 1..MaxCalls
\* The UI thread's key parameter when no call is in progress.
NoKey == ""
\* The pixmap handed to put(): an object no generation produced.
PutPixmap == MaxCalls + 1

VARIABLES
    cache,            \* self.cache: key -> pixmap (NoPixmap: absent)
    loading,          \* self.loading: set of keys
    callbacks,        \* self.callbacks: key -> list object id (0: absent)
    lists,            \* heap of callback lists: list id -> sequence of callbacks
                      \* (<<>> for an id no list object has)
    queue,            \* self.queue: FIFO of jobs (a job is identified by its key)
    uiPc,             \* the UI thread's position
    uiKey,            \* key of the UI thread's current call
    uiReg,            \* callback of the UI thread's current get_async call
    uiRef,            \* list object the UI thread loaded from self.callbacks[key]
    uiRet,            \* value returned by the last get() call
    nReg,             \* get_async calls issued so far
    nEvent,           \* clear calls, put calls and failed jobs so far
    wPc,              \* each worker's position in _worker
    files_to_process, \* each worker's dequeued batch; its head is the current job
    pixmap,           \* each worker's local variable pixmap
    wIter,            \* list object a worker's for loop iterates over
    wIdx,             \* index of that list iterator
    nPix,             \* pixmap objects generated so far
    fired,            \* observation: callback -> sequence of pixmaps it was invoked with
    regKey,           \* observation: callback -> key it was registered for
    regMode,          \* observation: callback -> branch its get_async call took
                      \* ("raised": the call ended in KeyError)
    genCount          \* observation: key -> number of _generate_thumbnail runs started

\* One thumbnail generation followed statement by statement: the module-level
\* availability flags, the call chain under _generate_thumbnail with the video
\* strategies, and what the worker does with the result.
VARIABLES
    dPc,              \* position in the import / generation code
    dFlags,           \* RAWPY_AVAILABLE, VIDEO_THUMBNAIL_AVAILABLE,
                      \* OPTIMIZED_THUMBNAIL_AVAILABLE and VIDEO_THUMBNAIL_CONFIG
    dVideo,           \* the job's file as a video: whether cv2 can open it and
                      \* its CAP_PROP_FRAME_COUNT (fps is positive with it)
    dCaps,            \* cv2.VideoCapture objects opened in this job on which
                      \* release() has not been called
    dBackend,         \* _hardware_accel_method's position in its backends list
    dMemo,            \* files held by _fast_frame_grab_method.frame_cache and
                      \* by generate_video_thumbnail.cache
    dExt,             \* os.path.splitext(file_path)[1] of the job's file
    dType,            \* the worker's local variable file_type
    dGrab,            \* what the capture of _fast_frame_grab_method did in
                      \* the job: the outcomes of read() and of the
                      \* conversion, and the index of the frame converted
    dRet,             \* value returned by the call that returned last
    dStored,          \* what the worker put in self.cache[key] for this job
    dInvoked,         \* whether the worker invoked the key's callbacks
    dJobs             \* jobs generated so far

decodeVars == <<dPc, dFlags, dExt, dType, dGrab, dRet, dStored, dInvoked, dJobs,
                dVideo, dCaps, dBackend, dMemo>>
videoVars == <<dVideo, dCaps, dBackend, dMemo>>

\* The thumbnail view: FileListWidget in THUMBNAIL_VIEW mode with its
\* FileIconItem widgets, the THUMBNAIL_MANAGER they share and its workers.
\* Every handler of the UI thread is one step (Qt runs them one at a time,
\* and a get_async call inside is taken whole); a worker's job is followed
\* through its dequeue, check, generation, store, callback and discard steps.
VARIABLES
    widgets,          \* FileIconItem objects by <<file, view>>: alive,
                      \* thumbnail_loaded, the pending QTimer, and observations
    view,             \* number of times update_view has built the list
    fileVer,          \* each file's content version (its modification time)
    mCache,           \* THUMBNAIL_MANAGER.cache: file -> version its bitmap
                      \* was generated from (0: absent)
    mLoading,         \* THUMBNAIL_MANAGER.loading
    mCallbacks,       \* THUMBNAIL_MANAGER.callbacks: file -> list of callbacks
    mQueue,           \* THUMBNAIL_MANAGER.queue
    mPc,              \* each worker's position in _worker
    mBatch,           \* each worker's files_to_process
    mPix,             \* each worker's local variable pixmap
    loadTimer,        \* pending QTimer events of FileListWidget: the run of
                      \* _load_visible_thumbnails and the load_batch closures
    scrolls,          \* runs of _load_visible_thumbnails so far
    firedLog,         \* observation: files in the order their jobs' callbacks
                      \* were invoked
    rerequest         \* observation: the first viewport re-request of a queued
                      \* file and the files queued ahead of it at that time

viewVars == <<widgets, view, fileVer, mCache, mLoading, mCallbacks, mQueue,
              mPc, mBatch, mPix, loadTimer, scrolls, firedLog, rerequest>>

\* The state of the ThumbnailCache object and of the threads using it.
cacheVars == <<cache, loading, callbacks, lists, queue, uiPc, uiKey, uiReg,
               uiRef, uiRet, nReg, nEvent, wPc, files_to_process, pixmap,
               wIter, wIdx, nPix, fired, regKey, regMode, genCount>>

\* The cache of video_thumbnail.generate_video_thumbnail, a dict kept as an
\* attribute of the function, under the threads that call the function: the
\* two workers (from _generate_video_thumbnail) and the UI thread (from
\* _try_direct_thumbnail). Every call is for another file.
VARIABLES
    stdCache,         \* the keys of the dict in insertion order
    sPc,              \* each thread's position in the function
    sKey,             \* each thread's local variable oldest_key
    sCalls,           \* calls that have stored their thumbnail so far
    sFallback         \* observation: threads whose last call generated its
                      \* thumbnail and returned the fallback

memoVars == <<stdCache, sPc, sKey, sCalls, sFallback>>

\* The file catalogue of the card panel: SDCardPanel's FileSystemModel and
\* current sort settings, and the card's content that scan_directory walks.
VARIABLES
    file_model,       \* whether SDCardPanel.file_model is set
    files,            \* FileSystemModel.files, in list order
    sort_key,         \* FileSystemModel.sort_key
    sort_order,       \* FileSystemModel.sort_order
    current_sort_key,     \* SDCardPanel.current_sort_key
    current_sort_order,   \* SDCardPanel.current_sort_order
    disk,             \* the files under root_path
    mounted           \* whether root_path exists

catalogVars == <<file_model, files, sort_key, sort_order, current_sort_key,
                 current_sort_order, disk, mounted>>

\* SDCardDetector under the thread that calls start and stop and the monitor
\* threads that start creates.
VARIABLES
    running,          \* self._running
    thread,           \* self._thread: the last monitor thread created, 0 for None
    lock,             \* holder of self._lock: NoThread, MainThread or a monitor
    mainPc,           \* the calling thread's position in start or stop
    monPc,            \* each monitor thread's position in _monitor_loop
    current_cards,    \* the paths that are keys of self._current_cards
    new_cards,        \* each monitor thread's local new_cards_dict (its paths)
    drives,           \* the paths get_removable_drives() lists at present
    available,        \* the paths is_drive_available() is true for at present
    nChange,          \* changes of the machine's drives so far
    lastEvent,        \* observation: the last signal emitted for each path
    emitted           \* observation: the signals of the latest
                      \* _check_for_changes, as sets of paths

\* The cards the detector knows, the drives of the machine and the signals.
cardVars == <<current_cards, new_cards, drives, available, nChange,
              lastEvent, emitted>>

detectorVars == <<running, thread, lock, mainPc, monPc, cardVars>>

vars == <<cacheVars, decodeVars, viewVars, memoVars, catalogVars,
          detectorVars>>

\* What a step of the cache and its threads leaves alone, and what a step of
\* the generation code leaves alone.
nonCacheVars == <<decodeVars, viewVars, memoVars, catalogVars, detectorVars>>
nonDecodeVars == <<cacheVars, viewVars, memoVars, catalogVars, detectorVars>>
nonViewVars == <<cacheVars, decodeVars, memoVars, catalogVars, detectorVars>>
nonMemoVars == <<cacheVars, decodeVars, viewVars, catalogVars, detectorVars>>
nonCatalogVars == <<cacheVars, decodeVars, viewVars, memoVars, detectorVars>>
nonDetectorVars == <<cacheVars, decodeVars, viewVars, memoVars, catalogVars>>

uiVars == <<uiPc, uiKey, uiReg, uiRef, uiRet, nReg>>
workerVars == <<wPc, files_to_process, pixmap, wIter, wIdx>>
obsRegVars == <<regKey, regMode>>
genVars == <<nPix, genCount>>

\* The flags before the module body has run (lines 60-70).
NoFlags ==
    [rawpy |-> FALSE, video |-> FALSE, optimized |-> FALSE,
     use_optimized |-> TRUE, method |-> "fast_frame_grab", frame_number |-> 5,
     fallback_to_standard |-> TRUE]

\* No capture of _fast_frame_grab_method has read a frame in the job.
NoGrab == [rd |-> "none", cv |-> "none", index |-> -1]

\* The video properties of a job's file before the job has started.
NoVideo == [openable |-> FALSE, total_frames |-> 0]

\* The threads that call generate_video_thumbnail: the workers and, as 0,
\* the UI thread.
MemoThreads == Workers \cup {0}

\* The monitor threads of SDCardDetector, None for self._thread and for a
\* free lock, and the thread that calls start and stop.
Monitors == 1..MaxStarts
NoThread == 0
MainThread == -1

\* The drive paths of the machine, card["path"], and a poll without signals.
Paths == {"E:", "F:"}
NoSignals == [card_inserted |-> {}, card_removed |-> {}, cards_updated |-> FALSE]

\* The files of the file model, in the order update_view lists them, and the
\* views built.
Files == 1..NumFiles
Views == 1..MaxViews
Widgets == Files \X Views

\* file_info['type'] of the files: the first is a video, the others images.
FileType(f) == IF f = 1 THEN "video" ELSE "image"

\* A FileIconItem that has not been constructed.
NoWidget ==
    [alive |-> FALSE, thumbnail_loaded |-> FALSE, timer |-> "none",
     applied |-> 0, shown |-> 0, requestVer |-> 0, direct |-> 0,
     deadTouched |-> FALSE]

\* No viewport re-request yet.
NoRerequest == [file |-> 0, ahead |-> {}]

\* ThumbnailCache.__init__; the availability flags are not computed yet and
\* no view is built.
Init ==
    /\ cache = [k \in Keys |-> NoPixmap]
    /\ loading = {}
    /\ callbacks = [k \in Keys |-> 0]
    /\ lists = [i \in ListIds |-> <<>>]
    /\ queue = <<>>
    /\ uiPc = "idle"
    /\ uiKey = NoKey
    /\ uiReg = 0
    /\ uiRef = 0
    /\ uiRet = NoPixmap
    /\ nReg = 0
    /\ nEvent = 0
    /\ wPc = [w \in Workers |-> "fill"]
    /\ files_to_process = [w \in Workers |-> <<>>]
    /\ pixmap = [w \in Workers |-> NoPixmap]
    /\ wIter = [w \in Workers |-> 0]
    /\ wIdx = [w \in Workers |-> 0]
    /\ nPix = 0
    /\ fired = [r \in RegIds |-> <<>>]
    /\ regKey = [r \in RegIds |-> ""]
    /\ regMode = [r \in RegIds |-> "none"]
    /\ genCount = [k \in Keys |-> 0]
    /\ dPc = "import"
    /\ dFlags = NoFlags
    /\ dExt = ""
    /\ dType = ""
    /\ dGrab = NoGrab
    /\ dRet = "pending"
    /\ dStored = "nothing"
    /\ dInvoked = FALSE
    /\ dJobs = 0
    /\ dVideo = NoVideo
    /\ dCaps = 0
    /\ dBackend = 0
    /\ dMemo = [frame |-> {}, std |-> {}]
    /\ widgets = [wd \in Widgets |-> NoWidget]
    /\ view = 0
    /\ fileVer = [f \in Files |-> 1]
    /\ mCache = [f \in Files |-> 0]
    /\ mLoading = {}
    /\ mCallbacks = [f \in Files |-> <<>>]
    /\ mQueue = <<>>
    /\ mPc = [w \in Workers |-> "fill"]
    /\ mBatch = [w \in Workers |-> <<>>]
    /\ mPix = [w \in Workers |-> 0]
    /\ loadTimer = {}
    /\ scrolls = 0
    /\ firedLog = <<>>
    /\ rerequest = NoRerequest
    /\ stdCache = <<>>
    /\ sPc = [t \in MemoThreads |-> "idle"]
    /\ sKey = [t \in MemoThreads |-> 0]
    /\ sCalls = 0
    /\ sFallback = {}
    /\ file_model = FALSE
    /\ files = <<>>
    /\ sort_key = "name"
    /\ sort_order = "asc"
    /\ current_sort_key = "name"
    /\ current_sort_order = "asc"
    /\ disk = {}
    /\ mounted = TRUE
    /\ running = FALSE
    /\ thread = 0
    /\ lock = NoThread
    /\ mainPc = "idle"
    /\ monPc = [t \in Monitors |-> "unborn"]
    /\ current_cards = {}
    /\ new_cards = [t \in Monitors |-> {}]
    /\ drives = {}
    /\ available = {}
    /\ nChange = 0
    /\ lastEvent = [p \in Paths |-> "none"]
    /\ emitted = NoSignals


\* The list objects something still refers to: the values of self.callbacks,
\* the workers' list iterators and the list the UI thread has loaded.
Referenced(cb, it, ref) ==
    ({cb[k] : k \in Keys} \cup {it[w] : w \in Workers} \cup {ref}) \ {0}

\* CPython frees a list object when its last reference goes: the heap keeps
\* the content of referenced lists only.
Collect(ls, cb, it, ref) ==
    [i \in ListIds |-> IF i \in Referenced(cb, it, ref) THEN ls[i] ELSE <<>>]

\* The identity given to a list object created now.
NewListId ==
    CHOOSE i \in ListIds :
        /\ i \notin Referenced(callbacks, wIter, uiRef)
        /\ \A j \in 1..(i - 1) : j \in Referenced(callbacks, wIter, uiRef)

\* callback(file_path, pixmap): the invocation of one registered callback.
Invoke(r, p) == [fired EXCEPT ![r] = Append(@, p)]

\* ------------------------------------------------------------ UI: get
\* GetCheck as it would be if get did what its docstring says ("from the
\* cache or generate it"): a miss enqueues a generation job.
GetCheck_GenerateOnMiss(k) ==
    /\ uiPc = "idle"
    /\ uiKey' = k
    /\ uiPc' = IF cache[k] # NoPixmap THEN "get_read" ELSE "get_ret"
    /\ uiRet' = NoPixmap
    /\ queue' = IF cache[k] # NoPixmap THEN queue ELSE Append(queue, k)
    /\ loading' = IF cache[k] # NoPixmap THEN loading ELSE loading \cup {k}
    /\ UNCHANGED <<cache, callbacks, lists, uiReg, uiRef, nReg, nEvent, fired>>
    /\ UNCHANGED <<workerVars, obsRegVars, genVars>>
    /\ UNCHANGED nonCacheVars

\* get, lines 148-149 and 151: if key in self.cache; a miss returns None
GetCheck(k) ==
    /\ uiPc = "idle"
    /\ uiKey' = k
    /\ uiPc' = IF cache[k] # NoPixmap THEN "get_read" ELSE "get_ret"
    /\ uiRet' = NoPixmap
    /\ UNCHANGED <<cache, loading, callbacks, lists, queue, uiReg, uiRef,
                   nReg, nEvent, fired>>
    /\ UNCHANGED <<workerVars, obsRegVars, genVars>>
    /\ UNCHANGED nonCacheVars

\* get, line 150: return self.cache[key]
GetRead ==
    /\ uiPc = "get_read"
    /\ uiRet' = cache[uiKey]
    /\ uiPc' = "get_ret"
    /\ UNCHANGED <<cache, loading, callbacks, lists, queue, uiKey, uiReg,
                   uiRef, nReg, nEvent, fired>>
    /\ UNCHANGED <<workerVars, obsRegVars, genVars>>
    /\ UNCHANGED nonCacheVars

\* The caller of get has taken the returned value; the call's frame is gone.
GetReturn ==
    /\ uiPc = "get_ret"
    /\ uiRet' = NoPixmap
    /\ uiKey' = NoKey
    /\ uiPc' = "idle"
    /\ UNCHANGED <<cache, loading, callbacks, lists, queue, uiReg,
                   uiRef, nReg, nEvent, fired>>
    /\ UNCHANGED <<workerVars, obsRegVars, genVars>>
    /\ UNCHANGED nonCacheVars

\* ------------------------------------------------------ UI: get_async
\* get_async, line 158: if key in self.cache
GetAsyncCheckCache(k) ==
    /\ uiPc = "idle"
    /\ nReg < MaxCalls
    /\ nReg' = nReg + 1
    /\ uiReg' = nReg + 1
    /\ uiKey' = k
    /\ regKey' = [regKey EXCEPT ![nReg + 1] = k]
    /\ uiPc' = IF cache[k] # NoPixmap THEN "ga_hit" ELSE "ga_loading"
    /\ UNCHANGED <<cache, loading, callbacks, lists, queue, uiRef, uiRet,
                   nEvent, fired, regMode>>
    /\ UNCHANGED <<workerVars, genVars>>
    /\ UNCHANGED nonCacheVars

\* GetAsyncHit without the return of line 160: the call goes on to line 163.
GetAsyncHit_NoReturn ==
    /\ uiPc = "ga_hit"
    /\ fired' = Invoke(uiReg, cache[uiKey])
    /\ regMode' = [regMode EXCEPT ![uiReg] = "cached"]
    /\ uiPc' = "ga_loading"
    /\ UNCHANGED <<cache, loading, callbacks, lists, queue, uiKey, uiReg,
                   uiRef, uiRet, nReg, nEvent, regKey>>
    /\ UNCHANGED <<workerVars, genVars>>
    /\ UNCHANGED nonCacheVars

\* get_async, lines 159-160: callback(file_path, self.cache[key]); return
GetAsyncHit ==
    /\ uiPc = "ga_hit"
    /\ fired' = Invoke(uiReg, cache[uiKey])
    /\ regMode' = [regMode EXCEPT ![uiReg] = "cached"]
    /\ uiPc' = "idle"
    /\ uiKey' = NoKey
    /\ UNCHANGED <<cache, loading, callbacks, lists, queue, uiReg,
                   uiRef, uiRet, nReg, nEvent, regKey>>
    /\ UNCHANGED <<workerVars, genVars>>
    /\ UNCHANGED nonCacheVars

\* get_async, line 163: if key in self.loading
GetAsyncCheckLoading ==
    /\ uiPc = "ga_loading"
    /\ regMode' = [regMode EXCEPT ![uiReg] =
                       IF uiKey \in loading THEN "inflight" ELSE "new"]
    /\ uiPc' = IF uiKey \in loading THEN "ga_chk" ELSE "ga_add"
    /\ UNCHANGED <<cache, loading, callbacks, lists, queue, uiKey, uiReg,
                   uiRef, uiRet, nReg, nEvent, fired, regKey>>
    /\ UNCHANGED <<workerVars, genVars>>
    /\ UNCHANGED nonCacheVars

\* get_async, line 170: self.loading.add(key)
GetAsyncAddLoading ==
    /\ uiPc = "ga_add"
    /\ loading' = loading \cup {uiKey}
    /\ uiPc' = "ga_chk"
    /\ UNCHANGED <<cache, callbacks, lists, queue, uiKey, uiReg, uiRef,
                   uiRet, nReg, nEvent, fired>>
    /\ UNCHANGED <<workerVars, obsRegVars, genVars>>
    /\ UNCHANGED nonCacheVars

\* get_async, lines 164 and 171: if key not in self.callbacks
GetAsyncCheckCallbacks ==
    /\ uiPc = "ga_chk"
    /\ uiPc' = IF callbacks[uiKey] = 0 THEN "ga_new" ELSE "ga_load"
    /\ UNCHANGED <<cache, loading, callbacks, lists, queue, uiKey, uiReg,
                   uiRef, uiRet, nReg, nEvent, fired>>
    /\ UNCHANGED <<workerVars, obsRegVars, genVars>>
    /\ UNCHANGED nonCacheVars

\* get_async, lines 165 and 172: self.callbacks[key] = []
GetAsyncNewList ==
    /\ uiPc = "ga_new"
    /\ lists' = [lists EXCEPT ![NewListId] = <<>>]
    /\ callbacks' = [callbacks EXCEPT ![uiKey] = NewListId]
    /\ uiPc' = "ga_load"
    /\ UNCHANGED <<cache, loading, queue, uiKey, uiReg, uiRef, uiRet, nReg,
                   nEvent, fired>>
    /\ UNCHANGED <<workerVars, obsRegVars, genVars>>
    /\ UNCHANGED nonCacheVars

\* get_async, lines 166 and 173: the subscript self.callbacks[key]; a worker
\* that deleted the entry since the check makes it raise KeyError, which
\* leaves get_async with the callback registered nowhere.
GetAsyncLoadList ==
    /\ uiPc = "ga_load"
    /\ IF callbacks[uiKey] = 0
          THEN /\ uiPc' = "idle"
               /\ uiRef' = 0
               /\ uiKey' = NoKey
               /\ regMode' = [regMode EXCEPT ![uiReg] = "raised"]
          ELSE /\ uiPc' = "ga_app"
               /\ uiRef' = callbacks[uiKey]
               /\ uiKey' = uiKey
               /\ regMode' = regMode
    /\ UNCHANGED <<cache, loading, callbacks, lists, queue, uiReg,
                   uiRet, nReg, nEvent, fired, regKey>>
    /\ UNCHANGED <<workerVars, genVars>>
    /\ UNCHANGED nonCacheVars

\* GetAsyncAppend without the return of line 167: the in-flight branch falls
\* through to line 176 and enqueues a second job for the key.
GetAsyncAppend_NoReturn ==
    /\ uiPc = "ga_app"
    /\ lists' = Collect([lists EXCEPT ![uiRef] = Append(@, uiReg)],
                        callbacks, wIter, 0)
    /\ uiRef' = 0
    /\ uiPc' = "ga_put"
    /\ UNCHANGED <<cache, loading, callbacks, queue, uiKey, uiReg, uiRet,
                   nReg, nEvent, fired>>
    /\ UNCHANGED <<workerVars, obsRegVars, genVars>>
    /\ UNCHANGED nonCacheVars

\* get_async, lines 166-167 and 173: .append(callback) on the loaded list;
\* the in-flight branch returns, the new-episode branch goes on to line 176.
GetAsyncAppend ==
    /\ uiPc = "ga_app"
    /\ lists' = Collect([lists EXCEPT ![uiRef] = Append(@, uiReg)],
                        callbacks, wIter, 0)
    /\ uiRef' = 0
    /\ uiPc' = IF regMode[uiReg] = "new" THEN "ga_put" ELSE "idle"
    /\ uiKey' = IF regMode[uiReg] = "new" THEN uiKey ELSE NoKey
    /\ UNCHANGED <<cache, loading, callbacks, queue, uiReg, uiRet,
                   nReg, nEvent, fired>>
    /\ UNCHANGED <<workerVars, obsRegVars, genVars>>
    /\ UNCHANGED nonCacheVars

\* get_async, line 176: self.queue.put((file_path, size, key))
GetAsyncEnqueue ==
    /\ uiPc = "ga_put"
    /\ queue' = Append(queue, uiKey)
    /\ uiPc' = "idle"
    /\ uiKey' = NoKey
    /\ UNCHANGED <<cache, loading, callbacks, lists, uiReg, uiRef,
                   uiRet, nReg, nEvent, fired>>
    /\ UNCHANGED <<workerVars, obsRegVars, genVars>>
    /\ UNCHANGED nonCacheVars

\* ------------------------------------------------------------ UI: put
\* put, line 248: self.cache[key] = pixmap
Put(k) ==
    /\ uiPc = "idle"
    /\ nEvent < MaxEvents
    /\ nEvent' = nEvent + 1
    /\ cache' = [cache EXCEPT ![k] = PutPixmap]
    /\ UNCHANGED <<loading, callbacks, lists, queue, uiPc, uiKey, uiReg,
                   uiRef, uiRet, nReg, fired>>
    /\ UNCHANGED <<workerVars, obsRegVars, genVars>>
    /\ UNCHANGED nonCacheVars

\* ---------------------------------------------------------- UI: clear
\* clear, line 252: self.cache.clear()
ClearCache ==
    /\ uiPc = "idle"
    /\ nEvent < MaxEvents
    /\ nEvent' = nEvent + 1
    /\ cache' = [k \in Keys |-> NoPixmap]
    /\ uiPc' = "cl_loading"
    /\ UNCHANGED <<loading, callbacks, lists, queue, uiKey, uiReg, uiRef,
                   uiRet, nReg, fired>>
    /\ UNCHANGED <<workerVars, obsRegVars, genVars>>
    /\ UNCHANGED nonCacheVars

\* A clear without line 253: the in-flight set is left as it is.
ClearLoading_Skipped ==
    /\ uiPc = "cl_loading"
    /\ uiPc' = "cl_callbacks"
    /\ UNCHANGED <<cache, loading, callbacks, lists, queue, uiKey, uiReg, uiRef,
                   uiRet, nReg, nEvent, fired>>
    /\ UNCHANGED <<workerVars, obsRegVars, genVars>>
    /\ UNCHANGED nonCacheVars

\* clear, line 253: self.loading.clear()
ClearLoading ==
    /\ uiPc = "cl_loading"
    /\ loading' = {}
    /\ uiPc' = "cl_callbacks"
    /\ UNCHANGED <<cache, callbacks, lists, queue, uiKey, uiReg, uiRef,
                   uiRet, nReg, nEvent, fired>>
    /\ UNCHANGED <<workerVars, obsRegVars, genVars>>
    /\ UNCHANGED nonCacheVars

\* clear, line 254: self.callbacks.clear()
ClearCallbacks ==
    /\ uiPc = "cl_callbacks"
    /\ callbacks' = [k \in Keys |-> 0]
    /\ lists' = Collect(lists, callbacks', wIter, uiRef)
    /\ uiPc' = "cl_queue"
    /\ UNCHANGED <<cache, loading, queue, uiKey, uiReg, uiRef,
                   uiRet, nReg, nEvent, fired>>
    /\ UNCHANGED <<workerVars, obsRegVars, genVars>>
    /\ UNCHANGED nonCacheVars

\* clear, lines 256-260: while not self.queue.empty(): self.queue.get_nowait()
ClearQueue ==
    /\ uiPc = "cl_queue"
    /\ IF queue # <<>>
          THEN /\ queue' = Tail(queue)
               /\ uiPc' = "cl_queue"
          ELSE /\ queue' = queue
               /\ uiPc' = "idle"
    /\ UNCHANGED <<cache, loading, callbacks, lists, uiKey, uiReg, uiRef,
                   uiRet, nReg, nEvent, fired>>
    /\ UNCHANGED <<workerVars, obsRegVars, genVars>>
    /\ UNCHANGED nonCacheVars

\* ------------------------------------------------------------- workers
\* The job a worker is processing: the loop variable of line 198.
CurKey(w) == Head(files_to_process[w])

\* The end of one iteration of the loop of line 198 (continue, or falling off
\* the body): the next job of the batch, or back to dequeuing at line 183.
NextJob(w) ==
    /\ files_to_process' = [files_to_process EXCEPT ![w] = Tail(@)]
    /\ wPc' = [wPc EXCEPT ![w] =
                  IF Tail(files_to_process[w]) = <<>> THEN "fill" ELSE "exists"]
    /\ pixmap' = [pixmap EXCEPT ![w] = NoPixmap]
    /\ wIter' = [wIter EXCEPT ![w] = 0]
    /\ wIdx' = [wIdx EXCEPT ![w] = 0]
    /\ lists' = Collect(lists, callbacks, wIter', uiRef)

\* _worker, lines 184-188: self.queue.get(timeout=0.1) returned a job
WorkerDequeue(w) ==
    /\ wPc[w] = "fill"
    /\ Len(files_to_process[w]) < BatchSize
    /\ queue # <<>>
    /\ files_to_process' = [files_to_process EXCEPT ![w] = Append(@, Head(queue))]
    /\ queue' = Tail(queue)
    /\ UNCHANGED <<cache, loading, callbacks, lists, fired, wPc, pixmap,
                   wIter, wIdx>>
    /\ UNCHANGED <<nEvent, uiVars, obsRegVars, genVars>>
    /\ UNCHANGED nonCacheVars

\* _worker, lines 189-198: the get timed out on an empty queue (Empty: break)
\* or the batch holds 5 jobs; a non-empty batch is processed.
WorkerStartBatch(w) ==
    /\ wPc[w] = "fill"
    /\ files_to_process[w] # <<>>
    /\ (queue = <<>> \/ Len(files_to_process[w]) = BatchSize)
    /\ wPc' = [wPc EXCEPT ![w] = "exists"]
    /\ UNCHANGED <<cache, loading, callbacks, lists, queue, fired,
                   files_to_process, pixmap, wIter, wIdx>>
    /\ UNCHANGED <<nEvent, uiVars, obsRegVars, genVars>>
    /\ UNCHANGED nonCacheVars

\* WorkerFileMissing without line 203: the job is dropped and the key stays in
\* the loading set.
WorkerFileMissing_NoDiscard(w) ==
    /\ wPc[w] = "exists"
    /\ nEvent < MaxEvents
    /\ nEvent' = nEvent + 1
    /\ NextJob(w)
    /\ UNCHANGED <<cache, loading, callbacks, queue, fired, nPix, genCount>>
    /\ UNCHANGED <<uiVars, obsRegVars>>
    /\ UNCHANGED nonCacheVars

\* _worker, lines 201-204: the file is gone: self.loading.discard(key); continue
WorkerFileMissing(w) ==
    /\ wPc[w] = "exists"
    /\ nEvent < MaxEvents
    /\ nEvent' = nEvent + 1
    /\ loading' = loading \ {CurKey(w)}
    /\ NextJob(w)
    /\ UNCHANGED <<cache, callbacks, queue, fired, nPix, genCount>>
    /\ UNCHANGED <<uiVars, obsRegVars>>
    /\ UNCHANGED nonCacheVars

\* _worker, lines 201 and 207: the file exists; if key in self.cache. When it
\* is not cached, lines 218-224 call self._generate_thumbnail.
WorkerCheckCache(w) ==
    /\ wPc[w] = "exists"
    /\ IF cache[CurKey(w)] # NoPixmap
          THEN /\ wPc' = [wPc EXCEPT ![w] = "hit_chk"]
               /\ genCount' = genCount
          ELSE /\ wPc' = [wPc EXCEPT ![w] = "generating"]
               /\ genCount' = [genCount EXCEPT ![CurKey(w)] = @ + 1]
    /\ UNCHANGED <<cache, loading, callbacks, lists, queue, fired,
                   files_to_process, pixmap, wIter, wIdx, nPix>>
    /\ UNCHANGED <<nEvent, uiVars, obsRegVars>>
    /\ UNCHANGED nonCacheVars

\* _worker, line 224: _generate_thumbnail returns a new pixmap
WorkerGenerated(w) ==
    /\ wPc[w] = "generating"
    /\ nPix' = nPix + 1
    /\ pixmap' = [pixmap EXCEPT ![w] = nPix + 1]
    /\ wPc' = [wPc EXCEPT ![w] = "store"]
    /\ UNCHANGED <<cache, loading, callbacks, lists, queue, fired,
                   files_to_process, wIter, wIdx, genCount>>
    /\ UNCHANGED <<nEvent, uiVars, obsRegVars>>
    /\ UNCHANGED nonCacheVars

\* _worker, lines 224-226 with _generate_thumbnail lines 297-299: generation
\* raised, _generate_thumbnail returned None, "if pixmap" is false.
WorkerGenerateFailed(w) ==
    /\ wPc[w] = "generating"
    /\ nEvent < MaxEvents
    /\ nEvent' = nEvent + 1
    /\ pixmap' = [pixmap EXCEPT ![w] = NoPixmap]
    /\ wPc' = [wPc EXCEPT ![w] = "discard"]
    /\ UNCHANGED <<cache, loading, callbacks, lists, queue, fired,
                   files_to_process, wIter, wIdx, nPix, genCount>>
    /\ UNCHANGED <<uiVars, obsRegVars>>
    /\ UNCHANGED nonCacheVars

\* _worker, line 227: self.cache[key] = pixmap
WorkerStore(w) ==
    /\ wPc[w] = "store"
    /\ cache' = [cache EXCEPT ![CurKey(w)] = pixmap[w]]
    /\ wPc' = [wPc EXCEPT ![w] = "cb_chk"]
    /\ UNCHANGED <<loading, callbacks, lists, queue, fired,
                   files_to_process, pixmap, wIter, wIdx>>
    /\ UNCHANGED <<nEvent, uiVars, obsRegVars, genVars>>
    /\ UNCHANGED nonCacheVars

\* _worker, lines 208 and 230: if key in self.callbacks
WorkerCheckCallbacks(w) ==
    /\ wPc[w] \in {"hit_chk", "cb_chk"}
    /\ wPc' = [wPc EXCEPT ![w] =
                  IF callbacks[CurKey(w)] = 0 THEN "discard"
                  ELSE IF wPc[w] = "hit_chk" THEN "hit_load" ELSE "cb_load"]
    /\ UNCHANGED <<cache, loading, callbacks, lists, queue, fired,
                   files_to_process, pixmap, wIter, wIdx>>
    /\ UNCHANGED <<nEvent, uiVars, obsRegVars, genVars>>
    /\ UNCHANGED nonCacheVars

\* _worker, lines 209 and 231: the subscript self.callbacks[key] that starts
\* the for loop; KeyError when the entry is gone (to the handler of line 239).
WorkerLoadList(w) ==
    /\ wPc[w] \in {"hit_load", "cb_load"}
    /\ IF callbacks[CurKey(w)] = 0
          THEN /\ wPc' = [wPc EXCEPT ![w] = "except"]
               /\ UNCHANGED <<wIter, wIdx>>
          ELSE /\ wPc' = [wPc EXCEPT ![w] =
                             IF wPc[w] = "hit_load" THEN "hit_iter" ELSE "cb_iter"]
               /\ wIter' = [wIter EXCEPT ![w] = callbacks[CurKey(w)]]
               /\ wIdx' = [wIdx EXCEPT ![w] = 1]
    /\ UNCHANGED <<cache, loading, callbacks, lists, queue, fired,
                   files_to_process, pixmap>>
    /\ UNCHANGED <<nEvent, uiVars, obsRegVars, genVars>>
    /\ UNCHANGED nonCacheVars

\* _worker, lines 209-213: one turn of "for callback in self.callbacks[key]"
\* on the cached path. The list iterator reads the live list, so it sees what
\* was appended since the loop began. self.cache[key] is read at each turn:
\* after a clear it raises KeyError, which line 212 catches and the callback
\* is not invoked.
WorkerHitIterate(w) ==
    /\ wPc[w] = "hit_iter"
    /\ IF wIdx[w] <= Len(lists[wIter[w]])
          THEN /\ fired' = IF cache[CurKey(w)] # NoPixmap
                              THEN Invoke(lists[wIter[w]][wIdx[w]], cache[CurKey(w)])
                              ELSE fired
               /\ wIdx' = [wIdx EXCEPT ![w] = @ + 1]
               /\ wPc' = wPc
               /\ wIter' = wIter
               /\ lists' = lists
          ELSE /\ fired' = fired
               /\ wIdx' = [wIdx EXCEPT ![w] = 0]
               /\ wIter' = [wIter EXCEPT ![w] = 0]
               /\ lists' = Collect(lists, callbacks, wIter', uiRef)
               /\ wPc' = [wPc EXCEPT ![w] = "hit_del"]
    /\ UNCHANGED <<cache, loading, callbacks, queue, files_to_process, pixmap>>
    /\ UNCHANGED <<nEvent, uiVars, obsRegVars, genVars>>
    /\ UNCHANGED nonCacheVars

\* _worker, lines 231-235: one turn of "for callback in self.callbacks[key]"
\* after a successful generation: callback(file_path, pixmap).
WorkerIterate(w) ==
    /\ wPc[w] = "cb_iter"
    /\ IF wIdx[w] <= Len(lists[wIter[w]])
          THEN /\ fired' = Invoke(lists[wIter[w]][wIdx[w]], pixmap[w])
               /\ wIdx' = [wIdx EXCEPT ![w] = @ + 1]
               /\ wPc' = wPc
               /\ wIter' = wIter
               /\ lists' = lists
          ELSE /\ fired' = fired
               /\ wIdx' = [wIdx EXCEPT ![w] = 0]
               /\ wIter' = [wIter EXCEPT ![w] = 0]
               /\ lists' = Collect(lists, callbacks, wIter', uiRef)
               /\ wPc' = [wPc EXCEPT ![w] = "cb_del"]
    /\ UNCHANGED <<cache, loading, callbacks, queue, files_to_process, pixmap>>
    /\ UNCHANGED <<nEvent, uiVars, obsRegVars, genVars>>
    /\ UNCHANGED nonCacheVars

\* _worker, lines 214 and 236: del self.callbacks[key]; KeyError when the
\* entry is gone (to the handler of line 239).
WorkerDeleteCallbacks(w) ==
    /\ wPc[w] \in {"hit_del", "cb_del"}
    /\ IF callbacks[CurKey(w)] = 0
          THEN /\ wPc' = [wPc EXCEPT ![w] = "except"]
               /\ callbacks' = callbacks
          ELSE /\ wPc' = [wPc EXCEPT ![w] = "discard"]
               /\ callbacks' = [callbacks EXCEPT ![CurKey(w)] = 0]
    /\ lists' = Collect(lists, callbacks', wIter, uiRef)
    /\ UNCHANGED <<cache, loading, queue, fired,
                   files_to_process, pixmap, wIter, wIdx>>
    /\ UNCHANGED <<nEvent, uiVars, obsRegVars, genVars>>
    /\ UNCHANGED nonCacheVars

\* _worker, lines 215-216 and 238: self.loading.discard(key), end of the job
WorkerDiscard(w) ==
    /\ wPc[w] = "discard"
    /\ loading' = loading \ {CurKey(w)}
    /\ NextJob(w)
    /\ UNCHANGED <<cache, callbacks, queue, fired>>
    /\ UNCHANGED <<nEvent, uiVars, obsRegVars, genVars>>
    /\ UNCHANGED nonCacheVars

\* _worker, lines 239-241: except Exception: self.loading.discard(key)
WorkerExcept(w) ==
    /\ wPc[w] = "except"
    /\ loading' = loading \ {CurKey(w)}
    /\ NextJob(w)
    /\ UNCHANGED <<cache, callbacks, queue, fired>>
    /\ UNCHANGED <<nEvent, uiVars, obsRegVars, genVars>>
    /\ UNCHANGED nonCacheVars

\* ------------------------------------------------- thumbnail generation
\* The extensions _get_file_type knows, by class (lines 267-279).
ImageExts == {".jpg", ".jpeg", ".png", ".gif", ".bmp", ".tiff", ".webp", ".svg"}
RawExts == {".raw", ".cr2", ".nef", ".arf", ".sr2", ".crw", ".dng", ".orf",
            ".pef", ".arw"}
VideoExts == {".mp4", ".mov", ".avi", ".mkv", ".mpg", ".mpeg", ".3gp", ".wmv",
              ".flv", ".webm"}
DocumentExts == {".pdf", ".doc", ".docx", ".xls", ".xlsx", ".ppt", ".pptx",
                 ".txt", ".rtf"}

\* The extensions of the files the jobs are about, as their names spell
\* them: one per class in lower case and in another case, one unknown and
\* none.
Exts == {".jpg", ".JPG", ".cr2", ".Cr2", ".mp4", ".MP4", ".pdf", ".Pdf",
         ".xyz", ""}

\* The five results of _get_file_type.
FileTypes == {"image", "raw", "video", "document", "other"}

\* A str.lower that leaves its argument as it is.
lower_Identity(ext) == ext

\* str.lower on the extensions of Exts.
lower(ext) ==
    CASE ext = ".JPG" -> ".jpg"
      [] ext = ".Cr2" -> ".cr2"
      [] ext = ".MP4" -> ".mp4"
      [] ext = ".Pdf" -> ".pdf"
      [] OTHER -> ext

\* ThumbnailCache._get_file_type: the lists are tried in this order on the
\* lower-cased extension.
get_file_type(ext) ==
    IF lower(ext) \in ImageExts THEN "image"
    ELSE IF lower(ext) \in RawExts THEN "raw"
    ELSE IF lower(ext) \in VideoExts THEN "video"
    ELSE IF lower(ext) \in DocumentExts THEN "document"
    ELSE "other"

\* The values a generation function returns: None, a null QPixmap, a bitmap
\* decoded from the file's content, or one of the drawn placeholders.
Placeholders == {"generic", "generic_video", "generic_document", "filmstrip"}
Decoded == {"decoded", "frame", "frame_overlay", "video_thumbnail"}

\* OPTIMIZATION_METHODS (video_thumbnail_optimized.py, lines 27-36): the
\* values VIDEO_THUMBNAIL_CONFIG["preferred_method"] is meant to take.
Methods == {"standard", "direct_seek", "keyframe_only", "stream_optimized",
            "skip_frames", "hardware_accel", "fast_first_frame",
            "fast_frame_grab"}

\* Values of VIDEO_THUMBNAIL_CONFIG["frame_number"]: the shipped 5 and the
\* strategy's default 50.
FrameNumbers == {5, 50}

\* CAP_PROP_FRAME_COUNT of the files: unknown (0), a single frame, fewer and
\* more frames than the configured frame number.
FrameCounts == {0, 1, 20, 100}

\* Lines 59-107: the module body sets the availability flags from what can be
\* imported; the optimized module is looked for only when OpenCV is there.
\* VIDEO_THUMBNAIL_CONFIG is whatever the deployed file says.
ImportModules ==
    /\ dPc = "import"
    /\ \E r, v, o, u, fb \in BOOLEAN, m \in Methods, n \in FrameNumbers :
           /\ (o => v)
           /\ dFlags' = [rawpy |-> r, video |-> v, optimized |-> o,
                         use_optimized |-> u, method |-> m, frame_number |-> n,
                         fallback_to_standard |-> fb]
    /\ dPc' = "idle"
    /\ UNCHANGED <<dExt, dType, dGrab, dRet, dStored, dInvoked, dJobs, videoVars>>
    /\ UNCHANGED nonDecodeVars

\* _worker, lines 198-218: a job for an existing, uncached file is taken up
JobStart ==
    /\ dPc = "idle"
    /\ dJobs < MaxDecodes
    /\ dJobs' = dJobs + 1
    /\ \E e \in Exts : dExt' = e
    /\ dType' = ""
    /\ dGrab' = NoGrab
    /\ dRet' = "pending"
    /\ dStored' = "nothing"
    /\ dInvoked' = FALSE
    /\ dPc' = "dispatch"
    /\ \E o \in BOOLEAN, t \in FrameCounts :
           dVideo' = [openable |-> o, total_frames |-> t]
    /\ dCaps' = 0
    /\ dBackend' = 0
    /\ UNCHANGED <<dFlags, dMemo>>
    /\ UNCHANGED nonDecodeVars

\* _generate_thumbnail, lines 286-296: dispatch on the file type
GenerateDispatch ==
    /\ dPc = "dispatch"
    /\ dType' = get_file_type(dExt)
    /\ dPc' = CASE dType' = "image" -> "image"
                [] dType' = "raw" /\ dFlags.rawpy -> "raw"
                [] dType' = "video" -> "video"
                [] dType' = "document" -> "document"
                [] OTHER -> "generic"
    /\ UNCHANGED <<dFlags, dExt, dGrab, dRet, dStored, dInvoked, dJobs, videoVars>>
    /\ UNCHANGED nonDecodeVars

\* _generate_image_thumbnail, lines 303-310: QPixmap(file_path) loads the
\* image, gives a null pixmap, or raises; the last two end in the generic
\* placeholder.
GenerateImage ==
    /\ dPc = "image"
    /\ \E loaded \in {"ok", "null", "raise"} :
           dRet' = IF loaded = "ok" THEN "decoded" ELSE "generic"
    /\ dPc' = "worker"
    /\ UNCHANGED <<dFlags, dExt, dType, dGrab, dStored, dInvoked, dJobs, videoVars>>
    /\ UNCHANGED nonDecodeVars

\* _generate_raw_thumbnail, lines 314-318 and 340-342: rawpy.imread opens the
\* file or raises (generic placeholder).
RawImread ==
    /\ dPc = "raw"
    /\ \E opened \in BOOLEAN :
           IF opened
              THEN dPc' = "raw_thumb" /\ dRet' = dRet
              ELSE dPc' = "worker" /\ dRet' = "generic"
    /\ UNCHANGED <<dFlags, dExt, dType, dGrab, dStored, dInvoked, dJobs, videoVars>>
    /\ UNCHANGED nonDecodeVars

\* _generate_raw_thumbnail, lines 319-327: raw.extract_thumb(). A JPEG preview
\* is loaded with pixmap.loadFromData, whose result is not looked at: when the
\* data does not decode the pixmap stays null and scaled() of a null pixmap is
\* a null pixmap, which is returned. Another format, or an exception, goes on
\* to postprocess.
RawExtractThumb ==
    /\ dPc = "raw_thumb"
    /\ \E thumb \in {"jpeg", "jpeg_undecodable", "bitmap", "raise"} :
           CASE thumb = "jpeg" -> dPc' = "worker" /\ dRet' = "decoded"
             [] thumb = "jpeg_undecodable" -> dPc' = "worker" /\ dRet' = "null"
             [] OTHER -> dPc' = "raw_post" /\ dRet' = dRet
    /\ UNCHANGED <<dFlags, dExt, dType, dGrab, dStored, dInvoked, dJobs, videoVars>>
    /\ UNCHANGED nonDecodeVars

\* _generate_raw_thumbnail, lines 329-342: raw.postprocess and the conversion
\* to a pixmap; an exception ends in the generic placeholder.
RawPostprocess ==
    /\ dPc = "raw_post"
    /\ \E done \in BOOLEAN :
           dRet' = IF done THEN "decoded" ELSE "generic"
    /\ dPc' = "worker"
    /\ UNCHANGED <<dFlags, dExt, dType, dGrab, dStored, dInvoked, dJobs, videoVars>>
    /\ UNCHANGED nonDecodeVars

\* _generate_document_thumbnail and _generate_generic_thumbnail, lines
\* 405-465: the drawn icon
GenerateGeneric ==
    /\ dPc \in {"document", "generic", "generic_video"}
    /\ dRet' = CASE dPc = "document" -> "generic_document"
                 [] dPc = "generic_video" -> "generic_video"
                 [] OTHER -> "generic"
    /\ dPc' = "worker"
    /\ UNCHANGED <<dFlags, dExt, dType, dGrab, dStored, dInvoked, dJobs, videoVars>>
    /\ UNCHANGED nonDecodeVars

\* --------------------------------------------------- video generation
\* What one cv2 call sequence can do once the capture is open: video.read()
\* returns a frame, returns no frame, or raises; _frame_to_pixmap converts
\* the frame or raises.
ReadOutcomes == {"frame", "fail", "raise"}
ConvertOutcomes == {"ok", "raise"}

Min(a, b) == IF a < b THEN a ELSE b
Max(a, b) == IF a > b THEN a ELSE b

\* The outcome of a strategy call: ret is what it returns ("raise": it raises),
\* leak the number of captures it opened and called no release() on.
Outcome(r, l) == [ret |-> r, leak |-> l]

\* The common tail "success, frame = video.read(); video.release(); if not
\* success or frame is None: return None; return _frame_to_pixmap(frame,
\* size)" of the strategies that have no try block (lines 187-194, 209-216,
\* 244-251, 278-285, 324-331).
ReadReleaseConvert(rd, cv) ==
    CASE rd = "raise" -> Outcome("raise", 1)
      [] rd = "fail" -> Outcome("None", 0)
      [] rd = "frame" /\ cv = "ok" -> Outcome("frame", 0)
      [] OTHER -> Outcome("raise", 0)

\* _standard_method, lines 162-194
standard_method(v, rd, cv) ==
    IF ~v.openable THEN Outcome("None", 0)
    ELSE IF v.total_frames <= 0 THEN Outcome("None", 0)
    ELSE ReadReleaseConvert(rd, cv)

\* _direct_seek_method if it let the failure to open reach the caller as an
\* exception.
direct_seek_method_RaisesUnopened(v, rd, cv) ==
    IF ~v.openable THEN Outcome("raise", 0)
    ELSE ReadReleaseConvert(rd, cv)

\* _direct_seek_method, lines 196-216: no look at fps or frame count
direct_seek_method(v, rd, cv) ==
    IF ~v.openable THEN Outcome("None", 0)
    ELSE ReadReleaseConvert(rd, cv)

\* _keyframe_only_method, lines 218-251
keyframe_only_method(v, rd, cv) ==
    IF ~v.openable THEN Outcome("None", 0)
    ELSE IF v.total_frames <= 0 THEN Outcome("None", 0)
    ELSE ReadReleaseConvert(rd, cv)

\* _stream_optimized_method, lines 253-285
stream_optimized_method(v, rd, cv) ==
    IF ~v.openable THEN Outcome("None", 0)
    ELSE IF v.total_frames <= 0 THEN Outcome("None", 0)
    ELSE ReadReleaseConvert(rd, cv)

\* _skip_frames_method, lines 287-331
skip_frames_method(v, rd, cv) ==
    IF ~v.openable THEN Outcome("None", 0)
    ELSE IF v.total_frames <= 0 THEN Outcome("None", 0)
    ELSE ReadReleaseConvert(rd, cv)

\* _fast_first_frame_method, lines 381-404: the whole body is in a try block
\* whose handler returns None; release() is called right after read().
fast_first_frame_method(v, rd, cv) ==
    IF ~v.openable THEN Outcome("None", 0)
    ELSE CASE rd = "raise" -> Outcome("None", 1)
           [] rd = "fail" -> Outcome("None", 0)
           [] rd = "frame" /\ cv = "ok" -> Outcome("frame", 0)
           [] OTHER -> Outcome("None", 0)

\* _fast_frame_grab_method, lines 420-502, when the frame cache has no entry.
\* frame_number is clamped to the file (line 442). Up to frame 10 the frames
\* are read in a loop and release() is called only on the success path (line
\* 467): with frame_number 0 the loop does not run and "frame" is unbound at
\* line 453 (UnboundLocalError, caught at line 500); a failed read falls
\* through to line 497. Later frames are sought and release() follows read()
\* (line 478).
fast_frame_grab_method(v, n, rd, cv) ==
    IF ~v.openable THEN Outcome("None", 0)
    ELSE IF v.total_frames <= 0 THEN Outcome("None", 0)
    ELSE IF Min(Max(0, n), v.total_frames - 1) <= 10
         THEN IF Min(Max(0, n), v.total_frames - 1) = 0
                 THEN Outcome("None", 1)
                 ELSE IF rd = "frame" /\ cv = "ok"
                         THEN Outcome("frame", 0)
                         ELSE Outcome("None", 1)
         ELSE CASE rd = "raise" -> Outcome("None", 1)
                [] rd = "frame" /\ cv = "ok" -> Outcome("frame", 0)
                [] OTHER -> Outcome("None", 0)

\* The read loop of lines 447-451 from current_pos to the clamped frame
\* number: each read() returns the frame the capture stands at and moves it
\* on by one; "last" is the index of the frame last read, -1 when none was.
RECURSIVE SequentialRead(_, _, _)
SequentialRead(current_pos, frame_number, last) ==
    IF current_pos < frame_number
    THEN SequentialRead(current_pos + 1, frame_number, current_pos)
    ELSE last

\* The index of the frame _fast_frame_grab_method converts when every read
\* succeeds: the last one of the read loop up to frame 10, and beyond that
\* the frame read at the position set by CAP_PROP_POS_FRAMES (lines 472-475).
fast_frame_grab_index(v, n) ==
    LET frame_number == Min(Max(0, n), v.total_frames - 1) IN
    IF frame_number <= 10
    THEN SequentialRead(0, frame_number, -1)
    ELSE frame_number

\* _generate_video_thumbnail, lines 348-352 and 399: which generator is used
VideoEntry ==
    /\ dPc = "video"
    /\ dPc' = IF ~dFlags.video THEN "generic_video"
              ELSE IF dFlags.optimized /\ dFlags.use_optimized THEN "strategy"
              ELSE "standard_gen"
    /\ UNCHANGED <<dFlags, dExt, dType, dGrab, dRet, dStored, dInvoked, dJobs, videoVars>>
    /\ UNCHANGED nonDecodeVars

\* The strategy generate_optimized_thumbnail dispatches to (lines 128-144),
\* other than hardware_accel and fast_frame_grab; "standard" is no branch of
\* the dispatch and ends in the else.
DispatchOutcome(m, v, rd, cv) ==
    CASE m = "direct_seek" -> direct_seek_method(v, rd, cv)
      [] m = "keyframe_only" -> keyframe_only_method(v, rd, cv)
      [] m = "stream_optimized" -> stream_optimized_method(v, rd, cv)
      [] m = "skip_frames" -> skip_frames_method(v, rd, cv)
      [] m = "fast_first_frame" -> fast_first_frame_method(v, rd, cv)
      [] OTHER -> standard_method(v, rd, cv)

\* generate_optimized_thumbnail, lines 128-144: the call of a strategy that
\* opens one capture; also the _standard_method call that ends
\* _hardware_accel_method (line 366).
StrategyCall ==
    /\ \/ dPc = "strategy" /\ dFlags.method \notin {"hardware_accel", "fast_frame_grab"}
       \/ dPc = "hw_standard"
    /\ \E rd \in ReadOutcomes, cv \in ConvertOutcomes :
          LET out == IF dPc = "hw_standard"
                        THEN standard_method(dVideo, rd, cv)
                        ELSE DispatchOutcome(dFlags.method, dVideo, rd, cv)
          IN  /\ dRet' = out.ret
              /\ dCaps' = dCaps + out.leak
    /\ dPc' = "strategy_ret"
    /\ UNCHANGED <<dFlags, dExt, dType, dGrab, dStored, dInvoked, dJobs, dVideo, dBackend, dMemo>>
    /\ UNCHANGED nonDecodeVars

\* generate_optimized_thumbnail, line 141: _fast_frame_grab_method; a frame
\* cached for the file is returned before anything is opened (lines 422-425),
\* a frame extracted is cached (lines 458-460, 485-487).
FastFrameGrab ==
    /\ dPc = "strategy"
    /\ dFlags.method = "fast_frame_grab"
    /\ IF dExt \in dMemo.frame
          THEN dRet' = "frame" /\ UNCHANGED <<dCaps, dMemo, dGrab>>
          ELSE \E rd \in ReadOutcomes, cv \in ConvertOutcomes :
                  LET out == fast_frame_grab_method(dVideo, dFlags.frame_number,
                                                    rd, cv)
                  IN  /\ dRet' = out.ret
                      /\ dCaps' = dCaps + out.leak
                      /\ dGrab' = [rd |-> rd, cv |-> cv,
                                   index |-> IF out.ret = "frame"
                                             THEN fast_frame_grab_index(
                                                      dVideo, dFlags.frame_number)
                                             ELSE -1]
                      /\ dMemo' = IF out.ret = "frame"
                                     THEN [dMemo EXCEPT !.frame = @ \cup {dExt}]
                                     ELSE dMemo
    /\ dPc' = "strategy_ret"
    /\ UNCHANGED <<dFlags, dExt, dType, dStored, dInvoked, dJobs, dVideo, dBackend>>
    /\ UNCHANGED nonDecodeVars

\* The backends _hardware_accel_method tries (lines 336-341).
Backends == <<"CAP_DSHOW", "CAP_MSMF", "CAP_FFMPEG", "CAP_GSTREAMER">>

\* _hardware_accel_method, lines 344-363: one turn of the loop over the
\* backends. A backend may fail to open a file that can be opened. An
\* exception of read() is caught with the capture unreleased; one of
\* _frame_to_pixmap is caught after release(). After the last backend
\* _standard_method is called.
HardwareAccelBackend ==
    /\ \/ dPc = "strategy" /\ dFlags.method = "hardware_accel" /\ dBackend' = 1
       \/ dPc = "hw_loop" /\ dBackend' = dBackend + 1
    /\ \E opened \in {dVideo.openable, FALSE},
          rd \in ReadOutcomes, cv \in ConvertOutcomes :
          IF opened /\ rd = "frame" /\ cv = "ok"
             THEN /\ dRet' = "frame"
                  /\ dPc' = "strategy_ret"
                  /\ dCaps' = dCaps
             ELSE /\ dRet' = dRet
                  /\ dPc' = IF dBackend' = Len(Backends)
                               THEN "hw_standard" ELSE "hw_loop"
                  /\ dCaps' = IF opened /\ rd = "raise"
                                 THEN dCaps + 1 ELSE dCaps
    /\ UNCHANGED <<dFlags, dExt, dType, dGrab, dStored, dInvoked, dJobs, dVideo, dMemo>>
    /\ UNCHANGED nonDecodeVars

\* generate_optimized_thumbnail, lines 146-160: a frame gets the film-strip
\* overlay and the duration badge (the duration probe opens and releases its
\* own capture, lines 528-547); None is returned as it is; an exception out
\* of the strategy is answered with create_fallback_thumbnail, the film-strip
\* "VIDEO" placeholder.
OptimizedReturn ==
    /\ dPc = "strategy_ret"
    /\ dRet' = CASE dRet = "frame" -> "frame_overlay"
                 [] dRet = "raise" -> "filmstrip"
                 [] OTHER -> dRet
    /\ dPc' = "optimized_ret"
    /\ UNCHANGED <<dFlags, dExt, dType, dGrab, dStored, dInvoked, dJobs, videoVars>>
    /\ UNCHANGED nonDecodeVars

\* _generate_video_thumbnail, lines 367-380: where the call of the optimized
\* generator leads. A non-null pixmap is returned; None or a null pixmap
\* falls through to the standard generator; an exception is raised again
\* when fallback_to_standard is false, which the outer handler (line 396)
\* answers with the generic video icon, and else falls through as well.
AfterOptimized(ret, flags) ==
    IF ret = "raise"
    THEN IF flags.fallback_to_standard THEN "standard_gen"
         ELSE "generic_video"
    ELSE IF ret \notin {"None", "null"} THEN "worker"
    ELSE "standard_gen"

\* _generate_video_thumbnail, lines 367-380, after the optimized generator.
VideoAfterOptimized ==
    /\ dPc = "optimized_ret"
    /\ dPc' = AfterOptimized(dRet, dFlags)
    /\ UNCHANGED <<dFlags, dExt, dType, dGrab, dRet, dStored, dInvoked, dJobs, videoVars>>
    /\ UNCHANGED nonDecodeVars

\* video_thumbnail.generate_video_thumbnail, lines 38-151: a thumbnail cached
\* for the file is returned before anything is opened (lines 43-46); a file
\* that cannot be opened, invalid properties, a failed read and any exception
\* give create_fallback_thumbnail; release() follows read() (line 73), so an
\* exception of read() leaves the capture unreleased; a thumbnail made is
\* cached (line 138).
GenerateVideoThumbnail ==
    /\ dPc = "standard_gen"
    /\ IF dExt \in dMemo.std
          THEN dRet' = "video_thumbnail" /\ UNCHANGED <<dCaps, dMemo>>
          ELSE \E rd \in ReadOutcomes, cv \in ConvertOutcomes :
                  LET out == standard_method(dVideo, rd, cv)
                  IN  /\ dRet' = IF out.ret = "frame"
                                    THEN "video_thumbnail" ELSE "filmstrip"
                      /\ dCaps' = dCaps + out.leak
                      /\ dMemo' = IF out.ret = "frame"
                                     THEN [dMemo EXCEPT !.std = @ \cup {dExt}]
                                     ELSE dMemo
    /\ dPc' = "standard_ret"
    /\ UNCHANGED <<dFlags, dExt, dType, dGrab, dStored, dInvoked, dJobs, dVideo, dBackend>>
    /\ UNCHANGED nonDecodeVars

\* _generate_video_thumbnail, lines 391-403: a non-null pixmap is returned,
\* anything else ends in the generic video icon.
VideoReturn ==
    /\ dPc = "standard_ret"
    /\ dPc' = IF dRet \notin {"None", "null"} THEN "worker" ELSE "generic_video"
    /\ UNCHANGED <<dFlags, dExt, dType, dGrab, dRet, dStored, dInvoked, dJobs, videoVars>>
    /\ UNCHANGED nonDecodeVars

\* _worker, lines 226-238: "if pixmap" is true of every QPixmap object, null
\* or not (QPixmap defines no truth value), and false of None; a true result
\* is stored and handed to the callbacks.
JobStoreResult ==
    /\ dPc = "worker"
    /\ IF dRet # "None"
          THEN dStored' = dRet /\ dInvoked' = TRUE
          ELSE UNCHANGED <<dStored, dInvoked>>
    /\ dPc' = "idle"
    /\ UNCHANGED <<dFlags, dExt, dType, dGrab, dRet, dJobs, videoVars>>
    /\ UNCHANGED nonDecodeVars

\* ------------------------------------------------------- thumbnail view
\* The FileIconItem widgets of the list as update_view last built it.
Current == {wd \in Widgets : wd[2] = view}

\* The callbacks given to get_async: the closure update_thumbnail of
\* FileIconItem._request_thumbnail and the lambda of _load_visible_thumbnails
\* that calls FileListWidget._handle_thumbnail_loaded.
UpdateCb(wd) == [kind |-> "update_thumbnail", widget |-> wd]
LoadedCb(wd) == [kind |-> "_handle_thumbnail_loaded", widget |-> wd]

\* icon_label.setPixmap(pix) followed by thumbnail_loaded = True.
SetPixmap(ws, wd, pix) ==
    [ws EXCEPT ![wd].applied = @ + 1, ![wd].shown = pix,
               ![wd].thumbnail_loaded = TRUE]

\* A callback called with a bitmap.  The widget of a list that update_view has
\* cleared is destroyed; setPixmap on its label raises and nothing is set.
RunCallback(ws, cb, pix) ==
    LET wd == cb.widget IN
    IF cb.kind = "_handle_thumbnail_loaded" /\ ws[wd].thumbnail_loaded
    THEN ws
    ELSE IF ws[wd].alive
         THEN SetPixmap(ws, wd, pix)
         ELSE [ws EXCEPT ![wd].deadTouched = TRUE]

\* "for callback in self.callbacks[key]: callback(file_path, pixmap)".
RECURSIVE RunCallbacks(_, _, _)
RunCallbacks(ws, cbs, pix) ==
    IF cbs = <<>> THEN ws
    ELSE RunCallbacks(RunCallback(ws, Head(cbs), pix), Tail(cbs), pix)

\* The part of the UI thread's state that a chain of requests changes.
UiState ==
    [w |-> widgets, k |-> mCache, l |-> mLoading, c |-> mCallbacks,
     q |-> mQueue]

\* A get_async that generates in the calling thread when the key is absent.
get_async_Generates(t, f, cb) ==
    IF t.k[f] # 0
    THEN [t EXCEPT !.w = RunCallback(t.w, cb, t.k[f])]
    ELSE [t EXCEPT !.w = [RunCallback(t.w, cb, fileVer[f])
                             EXCEPT ![cb.widget].direct = @ + 1]]

\* THUMBNAIL_MANAGER.get_async(path, size, cb) from the UI thread.
get_async(t, f, cb) ==
    IF t.k[f] # 0
    THEN [t EXCEPT !.w = RunCallback(t.w, cb, t.k[f])]
    ELSE IF f \in t.l
         THEN [t EXCEPT !.c[f] = Append(@, cb)]
         ELSE [t EXCEPT !.l = @ \cup {f}, !.c[f] = Append(@, cb),
                        !.q = Append(@, f)]

\* A _request_thumbnail that shows the loading indicator for every type.
RequestThumbnail_TimerForAll(t, wd) ==
    LET f == wd[1]
        made == [NoWidget EXCEPT !.alive = TRUE, !.requestVer = fileVer[f],
                                 !.timer = "timeout"]
    IN  get_async([t EXCEPT !.w = [t.w EXCEPT ![wd] = made]], f, UpdateCb(wd))

\* FileIconItem construction up to the end of _request_thumbnail: the default
\* icon, then the cache hit, or the loading indicator with its 4 s timer for
\* a video and the asynchronous request.
RequestThumbnail(t, wd) ==
    LET f == wd[1]
        made == [NoWidget EXCEPT !.alive = TRUE, !.requestVer = fileVer[f]]
        ws == [t.w EXCEPT ![wd] = made]
    IN  IF t.k[f] # 0
        THEN [t EXCEPT !.w = SetPixmap(ws, wd, t.k[f])]
        ELSE get_async(
                 [t EXCEPT !.w = [ws EXCEPT ![wd].timer =
                                     IF FileType(f) = "video"
                                     THEN "timeout" ELSE "none"]],
                 f, UpdateCb(wd))

\* The loop of update_view that creates one FileIconItem per file.
RECURSIVE CreateItems(_, _, _)
CreateItems(t, f, v) ==
    IF f > NumFiles THEN t
    ELSE CreateItems(RequestThumbnail(t, <<f, v>>), f + 1, v)

\* list_widget.clear(): the item widgets of the list are destroyed, and
\* with them their labels and their pending _handle_thumbnail_timeout; the
\* Python objects stay, held by the closures that captured them.
ClearList(ws) ==
    [wd \in Widgets |->
        IF ws[wd].alive
        THEN [NoWidget EXCEPT
                 !.thumbnail_loaded = ws[wd].thumbnail_loaded,
                 !.timer = IF ws[wd].timer = "timeout" THEN "none"
                           ELSE ws[wd].timer,
                 !.direct = ws[wd].direct]
        ELSE ws[wd]]

\* update_view in THUMBNAIL_VIEW mode, after the manager state in t.
UpdateViewFrom(t) ==
    LET u == CreateItems([t EXCEPT !.w = ClearList(@)], 1, view + 1) IN
    /\ view < MaxViews
    /\ view' = view + 1
    /\ widgets' = u.w
    /\ mLoading' = u.l
    /\ mCallbacks' = u.c
    /\ mQueue' = u.q
    /\ loadTimer' = loadTimer \cup {[kind |-> "load_visible", items |-> <<>>]}

\* set_file_model (or a change of view mode): update_view on the model.
SetFileModel ==
    /\ UpdateViewFrom(UiState)
    /\ UNCHANGED <<fileVer, mCache, mPc, mBatch, mPix, scrolls, firedLog, rerequest>>
    /\ UNCHANGED nonViewVars

\* clear_thumbnail_cache: THUMBNAIL_MANAGER.clear(), then update_view.
ClearThumbnailCache ==
    /\ view > 0
    /\ mCache' = [f \in Files |-> 0]
    /\ UpdateViewFrom([w |-> widgets, k |-> [f \in Files |-> 0], l |-> {},
                       c |-> [f \in Files |-> <<>>], q |-> <<>>])
    /\ UNCHANGED <<fileVer, mPc, mBatch, mPix, scrolls, firedLog, rerequest>>
    /\ UNCHANGED nonViewVars

\* The widgets of the viewport lo..hi that have no thumbnail, nearest to the
\* centre of the viewport first (a stable sort of the list order).
Abs(x) == IF x < 0 THEN 0 - x ELSE x

Distance(f, lo, hi) == Abs(2 * f - (lo + hi))

RECURSIVE SortByDistance(_, _, _)
SortByDistance(fs, lo, hi) ==
    IF fs = {} THEN <<>>
    ELSE LET f == CHOOSE x \in fs : \A y \in fs :
                      \/ Distance(x, lo, hi) < Distance(y, lo, hi)
                      \/ Distance(x, lo, hi) = Distance(y, lo, hi) /\ x <= y
         IN  <<f>> \o SortByDistance(fs \ {f}, lo, hi)

Unloaded(fs) == {f \in fs : ~widgets[<<f, view>>].thumbnail_loaded}

\* pending_items cut into batches of batch_size.
RECURSIVE Batches(_)
Batches(items) ==
    IF items = <<>> THEN {}
    ELSE IF Len(items) <= BatchSize
         THEN {[kind |-> "load_batch", items |-> items]}
         ELSE {[kind |-> "load_batch", items |-> SubSeq(items, 1, BatchSize)]}
              \cup Batches(SubSeq(items, BatchSize + 1, Len(items)))

Smallest(fs) == CHOOSE x \in fs : \A y \in fs : x <= y
Largest(fs) == CHOOSE x \in fs : \A y \in fs : x >= y

\* _load_visible_thumbnails with the viewport over files lo..hi: the visible
\* widgets without a thumbnail are scheduled in batches; when there is none,
\* the first unloaded item below the viewport, or else the last one above
\* it, is requested at once.
LoadVisibleThumbnails(lo, hi) ==
    LET pending == SortByDistance(Unloaded(lo..hi), lo, hi)
        items == [i \in 1..Len(pending) |-> <<pending[i], view>>]
        below == Unloaded({f \in Files : f > hi})
        above == Unloaded({f \in Files : f < lo})
        t == IF pending # <<>> THEN UiState
             ELSE IF below # {}
                  THEN get_async(UiState, Smallest(below),
                                 LoadedCb(<<Smallest(below), view>>))
                  ELSE IF above # {}
                       THEN get_async(UiState, Largest(above),
                                      LoadedCb(<<Largest(above), view>>))
                       ELSE UiState
    IN  /\ view > 0
        /\ widgets' = t.w
        /\ mLoading' = t.l
        /\ mCallbacks' = t.c
        /\ mQueue' = t.q
        /\ loadTimer' = (loadTimer \ {[kind |-> "load_visible",
                                       items |-> <<>>]})
                        \cup Batches(items)

\* The QTimer.singleShot of update_view runs _load_visible_thumbnails.
ViewLoadTimer ==
    /\ [kind |-> "load_visible", items |-> <<>>] \in loadTimer
    /\ \E lo \in Files : \E hi \in lo..NumFiles : LoadVisibleThumbnails(lo, hi)
    /\ UNCHANGED <<view, fileVer, mCache, mPc, mBatch, mPix, scrolls,
                   firedLog, rerequest>>
    /\ UNCHANGED nonViewVars

\* The scroll timer, 150 ms after the last scroll, does the same.
ScrollSettled ==
    /\ scrolls < MaxScrolls
    /\ scrolls' = scrolls + 1
    /\ \E lo \in Files : \E hi \in lo..NumFiles : LoadVisibleThumbnails(lo, hi)
    /\ UNCHANGED <<view, fileVer, mCache, mPc, mBatch, mPix, firedLog, rerequest>>
    /\ UNCHANGED nonViewVars

\* The loop of load_batch over its captured widgets.
RECURSIVE LoadItems(_, _)
LoadItems(t, items) ==
    IF items = <<>> THEN t
    ELSE LET wd == Head(items) IN
         LoadItems(IF t.w[wd].thumbnail_loaded THEN t
                   ELSE get_async(t, wd[1], LoadedCb(wd)),
                   Tail(items))

\* Position of a file in the queue, 0 when it is not queued.
QueuePos(f) ==
    IF \E i \in 1..Len(mQueue) : mQueue[i] = f
    THEN CHOOSE i \in 1..Len(mQueue) : mQueue[i] = f
    ELSE 0

\* The files queued ahead of f that are not among the batch's own.
Ahead(f, items) ==
    {mQueue[i] : i \in 1..(QueuePos(f) - 1)}
        \ {items[j][1] : j \in 1..Len(items)}

\* The batch's requests that join a job still queued behind others.
Rerequested(items) ==
    {i \in 1..Len(items) :
        /\ ~widgets[items[i]].thumbnail_loaded
        /\ mCache[items[i][1]] = 0
        /\ items[i][1] \in mLoading
        /\ QueuePos(items[i][1]) > 0
        /\ Ahead(items[i][1], items) # {}}

\* A load_batch closure scheduled by _load_visible_thumbnails runs.
LoadBatch ==
    \E b \in loadTimer :
        /\ b.kind = "load_batch"
        /\ LET t == LoadItems(UiState, b.items)
               r == Rerequested(b.items)
               i == CHOOSE x \in r : \A y \in r : x <= y
           IN  /\ widgets' = t.w
               /\ mLoading' = t.l
               /\ mCallbacks' = t.c
               /\ mQueue' = t.q
               /\ rerequest' =
                      IF rerequest.file = 0 /\ r # {}
                      THEN [file |-> b.items[i][1],
                            ahead |-> Ahead(b.items[i][1], b.items)]
                      ELSE rerequest
        /\ loadTimer' = loadTimer \ {b}
        /\ UNCHANGED <<view, fileVer, mCache, mPc, mBatch, mPix, scrolls, firedLog>>
        /\ UNCHANGED nonViewVars

\* _handle_thumbnail_timeout, 4 s after _show_loading_indicator armed it (Qt
\* drops the timer of a destroyed widget): nothing when the thumbnail is
\* loaded, the cached bitmap when there is one by now, else the direct
\* attempt is scheduled 200 ms later.
ThumbnailTimeout ==
    \E wd \in Widgets :
        /\ widgets[wd].timer = "timeout"
        /\ widgets[wd].alive
        /\ widgets' =
              IF widgets[wd].thumbnail_loaded
              THEN [widgets EXCEPT ![wd].timer = "done"]
              ELSE IF mCache[wd[1]] # 0
                   THEN [SetPixmap(widgets, wd, mCache[wd[1]])
                            EXCEPT ![wd].timer = "done"]
                   ELSE [widgets EXCEPT ![wd].timer = "direct"]
        /\ UNCHANGED <<view, fileVer, mCache, mLoading, mCallbacks, mQueue,
                       mPc, mBatch, mPix, loadTimer, scrolls, firedLog, rerequest>>
        /\ UNCHANGED nonViewVars

\* _try_direct_thumbnail, run by the 200 ms timer (a lambda, which a
\* destroyed widget does not cancel): unless the thumbnail is loaded,
\* generate_video_thumbnail starts running in the UI thread.
TryDirectThumbnail ==
    \E wd \in Widgets :
        /\ widgets[wd].timer = "direct"
        /\ IF widgets[wd].thumbnail_loaded
           THEN widgets' = [widgets EXCEPT ![wd].timer = "done"]
           ELSE widgets' = [widgets EXCEPT ![wd].timer = "decoding",
                                           ![wd].direct = @ + 1]
        /\ UNCHANGED <<view, fileVer, mCache, mLoading, mCallbacks, mQueue,
                       mPc, mBatch, mPix, loadTimer, scrolls, firedLog,
                       rerequest>>
        /\ UNCHANGED nonViewVars

\* generate_video_thumbnail returns (a frame or the film-strip fallback,
\* never None): nothing when a worker's callback has loaded the thumbnail
\* meanwhile, else the result is set on the label.
DirectThumbnailDone ==
    \E wd \in Widgets :
        /\ widgets[wd].timer = "decoding"
        /\ widgets' =
              IF ~widgets[wd].thumbnail_loaded /\ widgets[wd].alive
              THEN [SetPixmap(widgets, wd, fileVer[wd[1]])
                       EXCEPT ![wd].timer = "done"]
              ELSE [widgets EXCEPT ![wd].timer = "done"]
        /\ UNCHANGED <<view, fileVer, mCache, mLoading, mCallbacks, mQueue,
                       mPc, mBatch, mPix, loadTimer, scrolls, firedLog, rerequest>>
        /\ UNCHANGED nonViewVars

RECURSIVE Touches(_)
Touches(fs) ==
    IF fs = {} THEN 0
    ELSE LET f == CHOOSE x \in fs : TRUE
         IN  fileVer[f] - 1 + Touches(fs \ {f})

\* The file on the card is rewritten: new contents and modification time.
TouchFile ==
    \E f \in Files :
        /\ Touches(Files) < MaxTouches
        /\ fileVer' = [fileVer EXCEPT ![f] = @ + 1]
        /\ UNCHANGED <<widgets, view, mCache, mLoading, mCallbacks, mQueue,
                       mPc, mBatch, mPix, loadTimer, scrolls, firedLog, rerequest>>
        /\ UNCHANGED nonViewVars

\* ---- the manager's workers under the view
\* The fill loop of _worker: up to five queue.get calls, ended by the fifth
\* item or by a queue that stayed empty for 0.1 s, with something to process.
MFill(w) ==
    \E n \in 1..BatchSize :
        /\ mPc[w] = "fill"
        /\ n <= Len(mQueue)
        /\ mBatch' = [mBatch EXCEPT ![w] = SubSeq(mQueue, 1, n)]
        /\ mQueue' = SubSeq(mQueue, n + 1, Len(mQueue))
        /\ mPc' = [mPc EXCEPT ![w] = "job"]
        /\ UNCHANGED <<widgets, view, fileVer, mCache, mLoading, mCallbacks,
                       mPix, loadTimer, scrolls, firedLog, rerequest>>
        /\ UNCHANGED nonViewVars

\* The job at the head of the batch (the files of the view exist): the
\* cached bitmap when "key in self.cache", else _generate_thumbnail reads the
\* file as it is now.
MGenerate(w) ==
    LET f == Head(mBatch[w]) IN
    /\ mPc[w] = "job"
    /\ mPix' = [mPix EXCEPT ![w] = IF mCache[f] # 0 THEN mCache[f]
                                    ELSE fileVer[f]]
    /\ mPc' = [mPc EXCEPT ![w] = IF mCache[f] # 0 THEN "fire" ELSE "store"]
    /\ UNCHANGED <<widgets, view, fileVer, mCache, mLoading, mCallbacks,
                   mQueue, mBatch, loadTimer, scrolls, firedLog, rerequest>>
    /\ UNCHANGED nonViewVars

\* self.cache[key] = pixmap.
MStore(w) ==
    /\ mPc[w] = "store"
    /\ mCache' = [mCache EXCEPT ![Head(mBatch[w])] = mPix[w]]
    /\ mPc' = [mPc EXCEPT ![w] = "fire"]
    /\ UNCHANGED <<widgets, view, fileVer, mLoading, mCallbacks, mQueue,
                   mBatch, mPix, loadTimer, scrolls, firedLog, rerequest>>
    /\ UNCHANGED nonViewVars

\* "if key in self.callbacks": every callback of the list is called in the
\* worker thread, an exception of one is logged, and the list is deleted;
\* then self.loading.discard(key) and the next job of the batch, or the
\* fill loop.
MFireCallbacks(w) ==
    LET f == Head(mBatch[w]) IN
    /\ mPc[w] = "fire"
    /\ widgets' = RunCallbacks(widgets, mCallbacks[f], mPix[w])
    /\ mCallbacks' = [mCallbacks EXCEPT ![f] = <<>>]
    /\ firedLog' = IF mCallbacks[f] # <<>>
                      /\ \A i \in 1..Len(firedLog) : firedLog[i] # f
                   THEN Append(firedLog, f) ELSE firedLog
    /\ mLoading' = mLoading \ {f}
    /\ mBatch' = [mBatch EXCEPT ![w] = Tail(@)]
    /\ mPc' = [mPc EXCEPT ![w] =
                  IF Tail(mBatch[w]) = <<>> THEN "fill" ELSE "job"]
    /\ mPix' = [mPix EXCEPT ![w] = 0]
    /\ UNCHANGED <<view, fileVer, mCache, mQueue, loadTimer, scrolls,
                   rerequest>>
    /\ UNCHANGED nonViewVars

\* ---- the view and its workers
\* The first set_file_model of a session: the folder's files are listed.
OpenFolder ==
    /\ view = 0
    /\ SetFileModel

ViewWorkerStep(w) ==
    \/ MFill(w)
    \/ MGenerate(w)
    \/ MStore(w)
    \/ MFireCallbacks(w)

\* One folder on screen: its items request their thumbnails, the user
\* scrolls, the timers of the items and of the list run.
ViewUIStep ==
    \/ OpenFolder
    \/ ViewLoadTimer
    \/ ScrollSettled
    \/ LoadBatch
    \/ ThumbnailTimeout
    \/ TryDirectThumbnail
    \/ DirectThumbnailDone

NextView == ViewUIStep \/ \E w \in Workers : ViewWorkerStep(w)

SpecView == Init /\ [][NextView]_vars

\* The list is rebuilt while the workers run: the model is set again or the
\* cache is cleared, before the timers of the items expire, and a file of
\* the folder is rewritten.
RebuildUIStep ==
    \/ SetFileModel
    \/ ClearThumbnailCache
    \/ TouchFile

NextRebuild == RebuildUIStep \/ \E w \in Workers : ViewWorkerStep(w)

SpecRebuild == Init /\ [][NextRebuild]_vars

\* ------------------------------------- the cache of the standard generator
\* The sequence without its element k.
Without(seq, k) == SelectSeq(seq, LAMBDA x : x # k)

InCache(k) == \E i \in 1..Len(stdCache) : stdCache[i] = k

\* generate_video_thumbnail, lines 134-138, for a file that is not cached and
\* whose thumbnail was generated: generate_video_thumbnail.cache[cache_key] =
\* pixmap_with_overlay. The key of the n-th such call is n.
MemoStore(t) ==
    /\ sPc[t] = "idle"
    /\ sCalls < MaxMemoCalls
    /\ sCalls' = sCalls + 1
    /\ stdCache' = Append(stdCache, sCalls + 1)
    /\ sFallback' = sFallback \ {t}
    /\ sPc' = [sPc EXCEPT ![t] = "len"]
    /\ UNCHANGED sKey
    /\ UNCHANGED nonMemoVars

\* Line 141: "if len(generate_video_thumbnail.cache) > 50"; when it is not,
\* the thumbnail is returned (line 147).
MemoCheckLen(t) ==
    /\ sPc[t] = "len"
    /\ sPc' = [sPc EXCEPT ![t] = IF Len(stdCache) > StdCacheLimit
                                    THEN "oldest" ELSE "idle"]
    /\ UNCHANGED <<stdCache, sKey, sCalls, sFallback>>
    /\ UNCHANGED nonMemoVars

\* Line 143: oldest_key = next(iter(generate_video_thumbnail.cache)).
MemoOldest(t) ==
    /\ sPc[t] = "oldest"
    /\ stdCache # <<>>
    /\ sKey' = [sKey EXCEPT ![t] = Head(stdCache)]
    /\ sPc' = [sPc EXCEPT ![t] = "del"]
    /\ UNCHANGED <<stdCache, sCalls, sFallback>>
    /\ UNCHANGED nonMemoVars

\* Line 144: del generate_video_thumbnail.cache[oldest_key], then the
\* thumbnail is returned; the KeyError of a key that is no longer there is
\* caught at line 149 and create_fallback_thumbnail is returned instead.
MemoDelete(t) ==
    /\ sPc[t] = "del"
    /\ IF InCache(sKey[t])
          THEN /\ stdCache' = Without(stdCache, sKey[t])
               /\ UNCHANGED sFallback
          ELSE /\ sFallback' = sFallback \cup {t}
               /\ UNCHANGED stdCache
    /\ sKey' = [sKey EXCEPT ![t] = 0]
    /\ sPc' = [sPc EXCEPT ![t] = "idle"]
    /\ UNCHANGED sCalls
    /\ UNCHANGED nonMemoVars

MemoStep(t) ==
    \/ MemoStore(t)
    \/ MemoCheckLen(t)
    \/ MemoOldest(t)
    \/ MemoDelete(t)

NextMemo == \E t \in MemoThreads : MemoStep(t)

SpecMemo == Init /\ [][NextMemo]_vars

\* ------------------------------------------------------- file catalogue
\* Strings that are compared or converted are sequences of code points.
CardFiles == 1..NumCardFiles
MountedStates == BOOLEAN
SortKeys == {"name", "size", "type", "date"}
SortOrders == {"asc", "desc"}
\* scan_directory's file_types: {} for None or an empty list.
TypeFilters == {{}, {"image"}, {"video"}, {"image", "video"}}

\* os.path.basename(file_path): "B.JPG", "a.mp4", "c.jpg".
FileName(f) ==
    CASE f = 1 -> <<66, 46, 74, 80, 71>>
      [] f = 2 -> <<97, 46, 109, 112, 52>>
      [] f = 3 -> <<99, 46, 106, 112, 103>>
      [] OTHER -> <<99 + f, 46, 106, 112, 103>>
\* file_stat.st_size
FileSize(f) ==
    CASE f = 1 -> 30
      [] f = 2 -> 10
      [] f = 3 -> 20
      [] OTHER -> 10 * f
\* file_stat.st_mtime
FileModified(f) ==
    CASE f = 1 -> 2
      [] f = 2 -> 3
      [] f = 3 -> 1
      [] OTHER -> f

\* str.lower() on one code point and on a string.
LowerCode(c) == IF c >= 65 /\ c <= 90 THEN c + 32 ELSE c
StrLower(str) == [i \in 1..Len(str) |-> LowerCode(str[i])]

\* os.path.splitext(name)[1]: from the last dot on, "" without a dot or with
\* only a leading one.
LastDot(str) ==
    LET dots == {i \in 1..Len(str) : str[i] = 46}
    IN IF dots = {} THEN 0
       ELSE CHOOSE i \in dots : \A j \in dots : j <= i
SplitExt(str) ==
    IF LastDot(str) <= 1 THEN <<>>
    ELSE SubSeq(str, LastDot(str), Len(str))

\* Python's "<" on two strings.
RECURSIVE StrLess(_, _)
StrLess(a, b) ==
    IF b = <<>> THEN FALSE
    ELSE IF a = <<>> THEN TRUE
    ELSE IF Head(a) < Head(b) THEN TRUE
    ELSE IF Head(a) > Head(b) THEN FALSE
    ELSE StrLess(Tail(a), Tail(b))

\* The extensions of image_exts and video_exts that the card's files have:
\* ".jpg", ".jpeg", ".png" and ".mp4", ".mov".
image_exts ==
    {<<46, 106, 112, 103>>, <<46, 106, 112, 101, 103>>, <<46, 112, 110, 103>>}
video_exts == {<<46, 109, 112, 52>>, <<46, 109, 111, 118>>}
\* FileSystemModel._get_file_type
CatalogFileType(f) ==
    LET ext == StrLower(SplitExt(FileName(f)))
    IN IF ext \in image_exts THEN "image"
       ELSE IF ext \in video_exts THEN "video"
       ELSE "other"
\* The type strings as code points: "image", "video", "other".
TypeCodes(t) ==
    CASE t = "image" -> <<105, 109, 97, 103, 101>>
      [] t = "video" -> <<118, 105, 100, 101, 111>>
      [] OTHER -> <<111, 116, 104, 101, 114>>

\* sort_functions[key](a) < sort_functions[key](b); a key that is not in
\* sort_functions sorts by name.
KeyLess(key, a, b) ==
    CASE key = "size" -> FileSize(a) < FileSize(b)
      [] key = "date" -> FileModified(a) < FileModified(b)
      [] key = "type" ->
            LET ta == TypeCodes(CatalogFileType(a))
                tb == TypeCodes(CatalogFileType(b))
                ea == StrLower(SplitExt(FileName(a)))
                eb == StrLower(SplitExt(FileName(b)))
            IN StrLess(ta, tb) \/ (ta = tb /\ StrLess(ea, eb))
      [] OTHER -> StrLess(StrLower(FileName(a)), StrLower(FileName(b)))

Reverse(seq) == [i \in 1..Len(seq) |-> seq[Len(seq) + 1 - i]]

\* list.sort(key=...): stable, an element goes behind every element that is
\* not greater than it.
InsertByKey(seq, x, key) ==
    LET n == Cardinality({i \in 1..Len(seq) : ~KeyLess(key, x, seq[i])})
    IN SubSeq(seq, 1, n) \o <<x>> \o SubSeq(seq, n + 1, Len(seq))
RECURSIVE SortByKey(_, _)
SortByKey(seq, key) ==
    IF seq = <<>> THEN <<>>
    ELSE InsertByKey(SortByKey(SubSeq(seq, 1, Len(seq) - 1), key),
                     seq[Len(seq)], key)
\* list.sort(key=..., reverse=True): descending, equal elements keep their
\* order.
SortedList(seq, key, reverse) ==
    IF reverse THEN Reverse(SortByKey(Reverse(seq), key))
    ELSE SortByKey(seq, key)

\* Whether a list is in the order of a key: no element is followed by one
\* that sorts strictly before it (after it, for "desc").
Ordered(seq, key, order) ==
    \A i, j \in 1..Len(seq) :
        i < j => IF order = "desc" THEN ~KeyLess(key, seq[i], seq[j])
                 ELSE ~KeyLess(key, seq[j], seq[i])

\* The model's fields that sort_files and scan_directory change.
CatalogState == [files |-> files, sort_key |-> sort_key,
                 sort_order |-> sort_order]

\* FileSystemModel.sort_files(key, order): "if not self.files: return" comes
\* before the assignments of sort_key and sort_order.
sort_files(m, key, order) ==
    IF m.files = <<>> THEN m
    ELSE [files |-> SortedList(m.files, key, order = "desc"),
          sort_key |-> key, sort_order |-> order]

\* The orders os.walk can list a set of files in.
WalkOrders(S) ==
    {seq \in [1..Cardinality(S) -> S] :
        \A i, j \in 1..Cardinality(S) : i # j => seq[i] # seq[j]}

\* FileSystemModel.scan_directory(file_types) with os.walk yielding "walk":
\* the list is emptied, a missing root_path leaves it empty, the files that
\* pass the filter are appended and sorted by the remembered key and order.
scan_directory(m, file_types, walk) ==
    IF ~mounted THEN [m EXCEPT !.files = <<>>]
    ELSE sort_files([m EXCEPT !.files = walk], m.sort_key, m.sort_order)

Listed(file_types) ==
    {f \in disk : file_types = {} \/ CatalogFileType(f) \in file_types}

SetCatalog(m) ==
    /\ files' = m.files
    /\ sort_key' = m.sort_key
    /\ sort_order' = m.sort_order

\* SDCardPanel.set_card_info: a new FileSystemModel (empty list, "name",
\* "asc"), scan_directory() and sort_files with the panel's current sort.
SetCardInfo ==
    /\ mounted
    /\ \E walk \in WalkOrders(Listed({})) :
           SetCatalog(sort_files(
               scan_directory([files |-> <<>>, sort_key |-> "name",
                               sort_order |-> "asc"], {}, walk),
               current_sort_key, current_sort_order))
    /\ file_model' = TRUE
    /\ UNCHANGED <<current_sort_key, current_sort_order, disk, mounted>>
    /\ UNCHANGED nonCatalogVars

\* SDCardPanel._handle_sort_changed
HandleSortChanged(key) ==
    /\ file_model
    /\ current_sort_key' = key
    /\ SetCatalog(sort_files(CatalogState, key, current_sort_order))
    /\ UNCHANGED <<file_model, current_sort_order, disk, mounted>>
    /\ UNCHANGED nonCatalogVars

\* SDCardPanel._handle_sort_order_changed
HandleSortOrderChanged ==
    LET order == IF current_sort_order = "asc" THEN "desc" ELSE "asc" IN
    /\ file_model
    /\ current_sort_order' = order
    /\ SetCatalog(sort_files(CatalogState, current_sort_key, order))
    /\ UNCHANGED <<file_model, current_sort_key, disk, mounted>>
    /\ UNCHANGED nonCatalogVars

\* SDCardPanel._handle_scan_clicked: scan_directory with the filter of the
\* photo and video buttons, no sort_files call after it.
HandleScanClicked(file_types) ==
    /\ file_model
    /\ \E walk \in WalkOrders(Listed(file_types)) :
           SetCatalog(scan_directory(CatalogState, file_types, walk))
    /\ UNCHANGED <<file_model, current_sort_key, current_sort_order, disk,
                   mounted>>
    /\ UNCHANGED nonCatalogVars

\* A file is written to the card or deleted from it.
CardChange(f) ==
    /\ mounted
    /\ disk' = IF f \in disk THEN disk \ {f} ELSE disk \cup {f}
    /\ UNCHANGED <<file_model, files, sort_key, sort_order, current_sort_key,
                   current_sort_order, mounted>>
    /\ UNCHANGED nonCatalogVars

\* The card is pulled out or put back.
CardMount ==
    /\ mounted' \in MountedStates \ {mounted}
    /\ UNCHANGED <<file_model, files, sort_key, sort_order, current_sort_key,
                   current_sort_order, disk>>
    /\ UNCHANGED nonCatalogVars

NextCatalog ==
    \/ SetCardInfo
    \/ \E key \in SortKeys : HandleSortChanged(key)
    \/ HandleSortOrderChanged
    \/ \E file_types \in TypeFilters : HandleScanClicked(file_types)
    \/ \E f \in CardFiles : CardChange(f)
    \/ CardMount

SpecCatalog == Init /\ [][NextCatalog]_vars

\* ------------------------------------------------------- card detector
\* self._thread.is_alive()
IsAlive(t) == t # NoThread /\ monPc[t] \notin {"unborn", "done"}

\* start(): "with self._lock" is entered.
StartEnter ==
    /\ mainPc = "idle"
    /\ lock = NoThread
    /\ lock' = MainThread
    /\ mainPc' = "start"
    /\ UNCHANGED <<running, thread, monPc>>
    /\ UNCHANGED cardVars
    /\ UNCHANGED nonDetectorVars

\* start() while running returns at once.
StartNoOp ==
    /\ mainPc = "start"
    /\ running
    /\ lock' = NoThread
    /\ mainPc' = "idle"
    /\ UNCHANGED <<running, thread, monPc>>
    /\ UNCHANGED cardVars
    /\ UNCHANGED nonDetectorVars

\* start() while stopped: _running = True, a new thread is created and
\* started, the lock is released.
StartThread ==
    /\ mainPc = "start"
    /\ ~running
    /\ \E t \in Monitors :
          /\ monPc[t] = "unborn"
          /\ \A u \in Monitors : u < t => monPc[u] # "unborn"
          /\ thread' = t
          /\ monPc' = [monPc EXCEPT ![t] = "test"]
    /\ running' = TRUE
    /\ lock' = NoThread
    /\ mainPc' = "idle"
    /\ UNCHANGED cardVars
    /\ UNCHANGED nonDetectorVars

\* stop(): "with self._lock" is entered.
StopEnter ==
    /\ mainPc = "idle"
    /\ lock = NoThread
    /\ lock' = MainThread
    /\ mainPc' = "stop"
    /\ UNCHANGED <<running, thread, monPc>>
    /\ UNCHANGED cardVars
    /\ UNCHANGED nonDetectorVars

\* stop() while stopped returns at once.
StopNoOp ==
    /\ mainPc = "stop"
    /\ ~running
    /\ lock' = NoThread
    /\ mainPc' = "idle"
    /\ UNCHANGED <<running, thread, monPc>>
    /\ UNCHANGED cardVars
    /\ UNCHANGED nonDetectorVars

\* stop() while running: _running = False, and join(timeout=2.0) is called
\* inside the lock when the thread is alive.
StopClear ==
    /\ mainPc = "stop"
    /\ running
    /\ running' = FALSE
    /\ IF IsAlive(thread)
       THEN mainPc' = "join" /\ UNCHANGED lock
       ELSE mainPc' = "idle" /\ lock' = NoThread
    /\ UNCHANGED <<thread, monPc>>
    /\ UNCHANGED cardVars
    /\ UNCHANGED nonDetectorVars

\* join returns because the thread has ended.
JoinReturns ==
    /\ mainPc = "join"
    /\ ~IsAlive(thread)
    /\ lock' = NoThread
    /\ mainPc' = "idle"
    /\ UNCHANGED <<running, thread, monPc>>
    /\ UNCHANGED cardVars
    /\ UNCHANGED nonDetectorVars

\* join returns after its 2 seconds: the thread waits for the lock that
\* stop() holds and cannot end before stop() returns.
JoinTimeout ==
    /\ mainPc = "join"
    /\ monPc[thread] = "wait_lock"
    /\ lock' = NoThread
    /\ mainPc' = "idle"
    /\ UNCHANGED <<running, thread, monPc>>
    /\ UNCHANGED cardVars
    /\ UNCHANGED nonDetectorVars

\* "while self._running" is false: _monitor_loop returns.
MonExit(t) ==
    /\ monPc[t] = "test"
    /\ ~running
    /\ monPc' = [monPc EXCEPT ![t] = "done"]
    /\ UNCHANGED <<running, thread, lock, mainPc>>
    /\ UNCHANGED cardVars
    /\ UNCHANGED nonDetectorVars

\* "while self._running" is true and the polling interval has not passed:
\* time.sleep(0.1) and continue.
MonSleep(t) ==
    /\ monPc[t] = "test"
    /\ running
    /\ monPc' = [monPc EXCEPT ![t] = "sleep"]
    /\ UNCHANGED <<running, thread, lock, mainPc>>
    /\ UNCHANGED cardVars
    /\ UNCHANGED nonDetectorVars

MonWake(t) ==
    /\ monPc[t] = "sleep"
    /\ monPc' = [monPc EXCEPT ![t] = "test"]
    /\ UNCHANGED <<running, thread, lock, mainPc>>
    /\ UNCHANGED cardVars
    /\ UNCHANGED nonDetectorVars

\* "while self._running" is true and the interval has passed:
\* _check_for_changes calls get_removable_drives().
MonPoll(t) ==
    /\ monPc[t] = "test"
    /\ running
    /\ monPc' = [monPc EXCEPT ![t] = "drives"]
    /\ UNCHANGED <<running, thread, lock, mainPc>>
    /\ UNCHANGED cardVars
    /\ UNCHANGED nonDetectorVars

\* get_removable_drives() has returned; the thread is at "with self._lock".
MonDrives(t) ==
    /\ monPc[t] = "drives"
    /\ monPc' = [monPc EXCEPT ![t] = "wait_lock"]
    /\ new_cards' = [new_cards EXCEPT ![t] = drives]
    /\ UNCHANGED <<running, thread, lock, mainPc>>
    /\ UNCHANGED <<current_cards, drives, available, nChange, lastEvent,
                   emitted>>
    /\ UNCHANGED nonDetectorVars

MonAcquire(t) ==
    /\ monPc[t] = "wait_lock"
    /\ lock = NoThread
    /\ lock' = t
    /\ monPc' = [monPc EXCEPT ![t] = "in_lock"]
    /\ UNCHANGED <<running, thread, mainPc>>
    /\ UNCHANGED cardVars
    /\ UNCHANGED nonDetectorVars

\* card_inserted for every polled path, known or not.
InsertedPaths_All(cur, polled) == polled

\* "if path not in self._current_cards": the polled paths that get
\* card_inserted and are added to _current_cards.
InsertedPaths(cur, polled) == polled \ cur

\* "if path not in new_cards_dict or not is_drive_available(path)", asked of
\* every key of _current_cards after the insertions: the paths that get
\* card_removed and are popped.
RemovedPaths(cur, polled, avail) ==
    {p \in cur \cup InsertedPaths(cur, polled) : p \notin polled \/ p \notin avail}

\* The last signal of a path after a poll: card_removed comes after
\* card_inserted within one poll.
SignalAfter(last, ins, rem) ==
    [p \in Paths |-> IF p \in rem THEN "removed"
                     ELSE IF p \in ins THEN "inserted"
                     ELSE last[p]]

\* The body of "with self._lock" in _check_for_changes: the cards are
\* compared and the signals emitted, cards_updated when there was a change;
\* the lock is released and the loop tests _running again.
MonRelease(t) ==
    LET ins == InsertedPaths(current_cards, new_cards[t])
        rem == RemovedPaths(current_cards, new_cards[t], available)
    IN /\ monPc[t] = "in_lock"
       /\ current_cards' = (current_cards \cup ins) \ rem
       /\ emitted' = [card_inserted |-> ins, card_removed |-> rem,
                      cards_updated |-> (ins # {} \/ rem # {})]
       /\ lastEvent' = SignalAfter(lastEvent, ins, rem)
       /\ new_cards' = [new_cards EXCEPT ![t] = {}]
       /\ lock' = NoThread
       /\ monPc' = [monPc EXCEPT ![t] = "test"]
       /\ UNCHANGED <<running, thread, mainPc, drives, available, nChange>>
       /\ UNCHANGED nonDetectorVars

\* A removable drive appears in the list of the machine's drives or leaves it.
DriveChange(p) ==
    /\ nChange < MaxDriveChanges
    /\ nChange' = nChange + 1
    /\ drives' = IF p \in drives THEN drives \ {p} ELSE drives \cup {p}
    /\ UNCHANGED <<running, thread, lock, mainPc, monPc, current_cards,
                   new_cards, available, lastEvent, emitted>>
    /\ UNCHANGED nonDetectorVars

\* A path becomes readable or stops being readable.
AvailableChange(p) ==
    /\ nChange < MaxDriveChanges
    /\ nChange' = nChange + 1
    /\ available' = IF p \in available THEN available \ {p}
                    ELSE available \cup {p}
    /\ UNCHANGED <<running, thread, lock, mainPc, monPc, current_cards,
                   new_cards, drives, lastEvent, emitted>>
    /\ UNCHANGED nonDetectorVars

MainStep ==
    \/ StartEnter
    \/ StartNoOp
    \/ StartThread
    \/ StopEnter
    \/ StopNoOp
    \/ StopClear
    \/ JoinReturns
    \/ JoinTimeout

MonitorStep(t) ==
    \/ MonExit(t)
    \/ MonSleep(t)
    \/ MonWake(t)
    \/ MonPoll(t)
    \/ MonDrives(t)
    \/ MonAcquire(t)
    \/ MonRelease(t)

MachineStep ==
    \/ \E p \in Paths : DriveChange(p)
    \/ \E p \in Paths : AvailableChange(p)

NextDetector ==
    \/ MainStep
    \/ \E t \in Monitors : MonitorStep(t)
    \/ MachineStep

SpecDetector == Init /\ [][NextDetector]_vars

\* ------------------------------------------------------- specification
UIStep ==
    \/ \E k \in Keys : GetCheck(k)
    \/ GetRead
    \/ GetReturn
    \/ \E k \in Keys : GetAsyncCheckCache(k)
    \/ GetAsyncHit
    \/ GetAsyncCheckLoading
    \/ GetAsyncAddLoading
    \/ GetAsyncCheckCallbacks
    \/ GetAsyncNewList
    \/ GetAsyncLoadList
    \/ GetAsyncAppend
    \/ GetAsyncEnqueue
    \/ \E k \in Keys : Put(k)
    \/ ClearCache
    \/ ClearLoading
    \/ ClearCallbacks
    \/ ClearQueue

WorkerStep(w) ==
    \/ WorkerDequeue(w)
    \/ WorkerStartBatch(w)
    \/ WorkerFileMissing(w)
    \/ WorkerCheckCache(w)
    \/ WorkerGenerated(w)
    \/ WorkerGenerateFailed(w)
    \/ WorkerStore(w)
    \/ WorkerCheckCallbacks(w)
    \/ WorkerLoadList(w)
    \/ WorkerHitIterate(w)
    \/ WorkerIterate(w)
    \/ WorkerDeleteCallbacks(w)
    \/ WorkerDiscard(w)
    \/ WorkerExcept(w)

Next == UIStep \/ \E w \in Workers : WorkerStep(w)

Spec == Init /\ [][Next]_vars

\* One thumbnail generation after another, on their own.
DecodeStep ==
    \/ ImportModules
    \/ JobStart
    \/ GenerateDispatch
    \/ GenerateImage
    \/ RawImread
    \/ RawExtractThumb
    \/ RawPostprocess
    \/ GenerateGeneric
    \/ VideoEntry
    \/ StrategyCall
    \/ FastFrameGrab
    \/ HardwareAccelBackend
    \/ OptimizedReturn
    \/ VideoAfterOptimized
    \/ GenerateVideoThumbnail
    \/ VideoReturn
    \/ JobStoreResult

NextDecode == DecodeStep

SpecDecode == Init /\ [][NextDecode]_vars

\* ------------------------------------------------------------- claims
\* No thread is inside an operation and no job is outstanding.
Quiescent ==
    /\ uiPc = "idle"
    /\ queue = <<>>
    /\ \A w \in Workers : wPc[w] = "fill" /\ files_to_process[w] = <<>>

\* The callbacks registered for key k by get_async calls that did not find k
\* cached (the calls made before the generation's result was in the cache) and
\* did not raise.
Subscribers(k) ==
    {r \in RegIds : regKey[r] = k /\ regMode[r] \in {"inflight", "new"}}

\* C1: in a behaviour without clear, put or a failed job, once every call has
\* returned and every job is done, each key that was requested was generated
\* exactly once, and each callback registered for it before the result was
\* cached has been invoked exactly once, all of them with the same bitmap.
C1_CoalescedExactlyOnce ==
    (Quiescent /\ nEvent = 0) =>
        \A k \in Keys :
            (\E r \in RegIds : regKey[r] = k) =>
                /\ genCount[k] = 1
                /\ \A r \in Subscribers(k) : Len(fired[r]) = 1
                /\ \A r1, r2 \in Subscribers(k) : fired[r1] = fired[r2]

\* C2: no key is at once present in the cache and a member of the loading set.
C2_CachedXorLoading ==
    \A k \in Keys : ~(cache[k] # NoPixmap /\ k \in loading)

\* C3: no two worker threads are inside _generate_thumbnail for the same key
\* at the same time.
C3_NoConcurrentGeneration ==
    \A w1, w2 \in Workers :
        (w1 # w2 /\ wPc[w1] = "generating" /\ wPc[w2] = "generating")
            => CurKey(w1) # CurKey(w2)

\* C4 (liveness, as the final result a finite run shows): in a behaviour
\* without clear, put or a failed job, once every call has returned and no job
\* is outstanding (nothing more can happen to a callback), every callback
\* registered through a get_async call that returned has been invoked,
\* whichever branch the call took.
C4_EveryCallbackFires ==
    (Quiescent /\ nEvent = 0) =>
        \A r \in RegIds :
            regMode[r] \in {"cached", "inflight", "new"} => Len(fired[r]) >= 1

\* C5: no callback registered through get_async is invoked more than once.
C5_AtMostOneInvocation ==
    \A r \in RegIds : Len(fired[r]) <= 1

\* C6: get_async and the workers alone (no clear, put or failed job) never
\* leave a callback in the subscriber map for a key that is cached and no
\* longer in flight.
C6_NoStrandedSubscriber ==
    nEvent = 0 =>
        \A k \in Keys :
            ~(/\ callbacks[k] # 0
              /\ lists[callbacks[k]] # <<>>
              /\ cache[k] # NoPixmap
              /\ k \notin loading)

\* The UI thread takes a step of get().
GetStepTaken ==
    \/ uiPc = "idle" /\ uiPc' \in {"get_read", "get_ret"}
    \/ uiPc = "get_read" /\ uiPc' # uiPc
    \/ uiPc = "get_ret" /\ uiPc' # uiPc

C8_CachedCallbackImmediate ==
    /\ [](\A r \in RegIds : regMode[r] = "cached" => Len(fired[r]) = 1)
    /\ [][(uiPc = "ga_hit" /\ uiPc' # uiPc) =>
            /\ uiPc' = "idle"
            /\ cache[uiKey] # NoPixmap
            /\ fired' = [fired EXCEPT ![uiReg] = <<cache[uiKey]>>]
            /\ regMode'[uiReg] = "cached"
            /\ UNCHANGED <<cache, loading, callbacks, lists, queue>>
       ]_vars
    /\ [][(uiPc = "idle" /\ uiPc' = "ga_hit") =>
            UNCHANGED <<cache, loading, callbacks, lists, queue, fired>>
       ]_vars

\* C8 witness: a call took the cached branch and its callback was invoked.
C8_Witness ==
    \E r \in RegIds : regMode[r] = "cached" /\ Len(fired[r]) = 1

\* The UI thread takes a step of a get_async call that found its key in flight.
InflightStepTaken ==
    /\ uiPc' # uiPc
    /\ \/ uiPc = "ga_loading" /\ uiKey \in loading
       \/ uiPc \in {"ga_chk", "ga_new", "ga_load", "ga_app"}
            /\ regMode[uiReg] = "inflight"

\* C9: a get_async call that finds its key in flight changes neither the
\* queue (content and order), the loading set nor the cache, invokes nothing
\* and enqueues nothing; of the subscriber map it touches only its key's
\* entry, and the only change to a subscriber list is its callback appended
\* at the end (of the key's list, whenever the entry still holds the list the
\* call loaded).
C9_InflightOnlySubscribes ==
    [][InflightStepTaken =>
        /\ UNCHANGED <<queue, loading, cache, fired>>
        /\ uiPc' \in {"ga_chk", "ga_new", "ga_load", "ga_app", "idle"}
        /\ uiPc = "ga_loading" => regMode'[uiReg] = "inflight"
        /\ \A k \in Keys \ {uiKey} : callbacks'[k] = callbacks[k]
        /\ \A i \in ListIds :
               \/ lists'[i] = lists[i]
               \/ uiPc = "ga_app" /\ i = uiRef
                    /\ lists'[i] \in {Append(lists[i], uiReg), <<>>}
        /\ (uiPc = "ga_app" /\ callbacks[uiKey] = uiRef) =>
               /\ callbacks'[uiKey] = uiRef
               /\ lists'[uiRef] = Append(lists[uiRef], uiReg)
    ]_vars

\* C9 witness: with the jobs of "a" and "b" queued in that order, a second
\* get_async for "a" has returned: it subscribed and the queue is as it was.
C9_Witness ==
    /\ uiPc = "idle"
    /\ queue = <<"a", "b">>
    /\ \E r \in RegIds :
           /\ regKey[r] = "a"
           /\ regMode[r] = "inflight"
           /\ callbacks["a"] # 0
           /\ Len(lists[callbacks["a"]]) = 2
           /\ lists[callbacks["a"]][2] = r

\* Worker w ends a job whose generation succeeded (line 238, or line 241
\* after an exception past line 227).
FinishesGeneratedJob(w) ==
    /\ wPc[w] \in {"discard", "except"}
    /\ pixmap[w] # NoPixmap
    /\ files_to_process'[w] # files_to_process[w]

\* C10: in a behaviour without clear, put or a failed job, when a worker ends
\* a job whose generation succeeded while the UI thread is in no call, the key
\* is cached with the generated bitmap, the subscriber map has no entry for
\* the key, the key is not in the loading set, and every callback registered
\* for the key has been invoked with that bitmap.
C10_SuccessPostcondition ==
    [][\A w \in Workers :
          (FinishesGeneratedJob(w) /\ nEvent = 0 /\ uiPc = "idle") =>
              /\ cache'[CurKey(w)] = pixmap[w]
              /\ callbacks'[CurKey(w)] = 0
              /\ CurKey(w) \notin loading'
              /\ \A r \in Subscribers(CurKey(w)) : fired'[r] = <<pixmap[w]>>
    ]_vars

\* Worker w's call of _generate_thumbnail returns None (line 224, "if pixmap"
\* false at line 226).
GenerationFails(w) ==
    wPc[w] = "generating" /\ wPc'[w] = "discard"

\* Worker w ends a job that produced no pixmap: the file is missing (line
\* 203-204), or line 238 or 241 is reached with no pixmap generated.
EndsJobWithoutPixmap(w) ==
    /\ files_to_process'[w] # files_to_process[w]
    /\ \/ wPc[w] = "exists"
       \/ wPc[w] \in {"discard", "except"} /\ pixmap[w] = NoPixmap

\* C11: a failed generation inserts nothing in the cache, invokes no callback
\* and sends the worker straight to the end of the job; the end of a job that
\* produced no pixmap (missing file, failed generation, exception) removes the
\* key from the loading set, inserts nothing in the cache and invokes no
\* callback; a get_async call that then finds the key neither cached nor in
\* the loading set starts a new episode and puts a job for the key at the end
\* of the queue.
C11_FailedJobRetryable ==
    /\ [][\A w \in Workers :
            GenerationFails(w) =>
                UNCHANGED <<cache, loading, callbacks, lists, queue, fired>>
       ]_vars
    /\ [][\A w \in Workers :
            EndsJobWithoutPixmap(w) =>
                /\ CurKey(w) \notin loading'
                /\ UNCHANGED <<cache, queue, fired>>
       ]_vars
    /\ [][(uiPc = "ga_loading" /\ uiPc' # uiPc /\ uiKey \notin loading) =>
                (uiPc' = "ga_add" /\ regMode'[uiReg] = "new")
       ]_vars
    /\ [][(uiPc = "ga_put" /\ uiPc' # uiPc) =>
                (queue' = Append(queue, uiKey) /\ uiPc' = "idle")
       ]_vars

\* C11 witness: the job of the first get_async for "a" failed (its callback
\* was not invoked, "a" is not cached), and a second get_async for "a" has
\* started a new episode and queued a fresh job.
C11_Witness ==
    /\ uiPc = "idle"
    /\ nEvent = 1
    /\ cache["a"] = NoPixmap
    /\ "a" \in loading
    /\ queue = <<"a">>
    /\ callbacks["a"] # 0
    /\ \E r1, r2 \in RegIds :
           /\ r1 # r2
           /\ lists[callbacks["a"]] = <<r1, r2>>
           /\ regMode[r1] = "new" /\ regMode[r2] = "new"
           /\ fired[r1] = <<>>

\* C12: when a job for an existing file is done, the worker has stored a
\* non-null bitmap for the key and invoked the key's callbacks, whatever the
\* format-specific decoder did, and no exception came out of the generation.
C12_DecoderFailureRecovered ==
    /\ (dPc = "idle" /\ dJobs > 0) =>
           (dStored \notin {"nothing", "null"} /\ dInvoked)
    /\ dPc = "worker" => dRet # "raise"

\* C13: a widget never shows a bitmap generated from contents of its file
\* older than the contents the file had when the widget made its request.
C13_NoStaleBitmap ==
    \A wd \in Widgets :
        widgets[wd].shown # 0 => widgets[wd].shown >= widgets[wd].requestVer

\* A generation runs in the UI thread in this step.
UiDecodes == \E wd \in Widgets : widgets'[wd].direct # widgets[wd].direct

\* C14 as stated: no generation ever runs in the UI thread.
C14_NoDecodeOnUIThread ==
    \A wd \in Widgets : widgets[wd].direct = 0

\* C14 amended: the handlers that call get_async (the construction of the
\* items, _load_visible_thumbnails and load_batch) never generate, and the
\* only generation in the UI thread is the direct regeneration of
\* _try_direct_thumbnail after the timeout of a video item; every other
\* generation is a worker's.
C14_OnlyDirectAttemptDecodesOnUIThread ==
    [][UiDecodes =>
          \E wd \in Widgets :
              /\ FileType(wd[1]) = "video"
              /\ widgets[wd].timer = "direct"
              /\ widgets'[wd].timer = "decoding"
              /\ widgets'[wd].direct = widgets[wd].direct + 1
              /\ \A o \in Widgets \ {wd} : widgets'[o] = widgets[o]
              /\ UNCHANGED <<mCache, mLoading, mCallbacks, mQueue>>]_vars

\* C14 witness: the UI thread is inside the direct generation of a video
\* item while a worker has a job of its own in hand.
C14_Witness ==
    /\ \E wd \in Widgets : widgets[wd].timer = "decoding"
    /\ \E w \in Workers : mPc[w] = "store"

\* C15: a thumbnail is set on an item widget at most once.
C15_AppliedAtMostOnce ==
    \A wd \in Widgets : widgets[wd].applied <= 1

\* A step of the timeout handler or of the direct regeneration.
TimeoutStep ==
    \E wd \in Widgets :
        /\ widgets[wd].timer \in {"timeout", "direct", "decoding"}
        /\ widgets'[wd].timer \in {"direct", "decoding", "done"}
        /\ widgets'[wd].timer # widgets[wd].timer

\* C16 as stated: an item of any type on screen without its thumbnail has
\* the 4 s timeout or the direct attempt pending, or has made exactly one
\* direct attempt.
C16_TimeoutForEveryItem ==
    \A wd \in Widgets :
        (widgets[wd].alive /\ ~widgets[wd].thumbnail_loaded) =>
            \/ widgets[wd].timer \in {"timeout", "direct", "decoding"}
            \/ widgets[wd].direct = 1

\* C16 amended: a video item on screen without its thumbnail has the 4 s
\* timeout or its one direct attempt pending; no item makes more than one
\* direct attempt, and an item that is not a video has no timeout and makes
\* none; the timeout handler and the direct attempt leave the asynchronous
\* request as it is (the queue, the loading set, the callbacks, the jobs).
C16_TimeoutForVideoItem ==
    /\ [](\A wd \in Widgets :
            /\ (FileType(wd[1]) = "video" /\ widgets[wd].alive
                   /\ ~widgets[wd].thumbnail_loaded) =>
                   widgets[wd].timer \in {"timeout", "direct", "decoding"}
            /\ widgets[wd].direct <= 1
            /\ widgets[wd].timer = "decoding" => widgets[wd].direct = 1
            /\ FileType(wd[1]) # "video" =>
                   (widgets[wd].timer = "none" /\ widgets[wd].direct = 0))
    /\ [][TimeoutStep =>
             UNCHANGED <<mQueue, mLoading, mCallbacks, mBatch, mPc>>]_vars

\* C16 witness: a video item has made its direct attempt and shows its
\* result while its asynchronous request is still in flight.
C16_Witness ==
    \E wd \in Widgets :
        /\ widgets[wd].alive
        /\ widgets[wd].timer = "done"
        /\ widgets[wd].direct = 1
        /\ widgets[wd].thumbnail_loaded
        /\ wd[1] \in mLoading
        /\ mCallbacks[wd[1]] # <<>>

\* C17: no callback operates on a destroyed widget.
C17_NoCallbackOnDestroyedWidget ==
    \A wd \in Widgets : ~widgets[wd].deadTouched

\* Number of the files of fs whose callbacks fired before those of f.
FiredBefore(fs, f) ==
    Cardinality({g \in fs :
        \E i, j \in 1..Len(firedLog) :
            firedLog[i] = g /\ firedLog[j] = f /\ i < j})

\* C18: when the callbacks of a file re-requested from the viewport fire,
\* fewer than half of the off-screen files that were queued ahead of it at
\* the re-request have had theirs.
C18_VisibleFiresBeforeMost ==
    (rerequest.file # 0
        /\ \E j \in 1..Len(firedLog) : firedLog[j] = rerequest.file) =>
        2 * FiredBefore(rerequest.ahead, rerequest.file)
            < Cardinality(rerequest.ahead)

\* C21: the file type a worker computes for a job is one of image, raw,
\* video, document and other, whatever the case of the extension: .jpg is an
\* image, .cr2 raw, .mp4 a video, .pdf a document, an unknown or missing
\* extension other; and no extension is in two of the four lists.
C21_ClassifyDispatch ==
    /\ dType # "" =>
          /\ dType \in FileTypes
          /\ dExt \in {".jpg", ".JPG"} => dType = "image"
          /\ dExt \in {".cr2", ".Cr2"} => dType = "raw"
          /\ dExt \in {".mp4", ".MP4"} => dType = "video"
          /\ dExt \in {".pdf", ".Pdf"} => dType = "document"
          /\ dExt \in {".xyz", ""} => dType = "other"
    /\ ImageExts \cap RawExts = {}
    /\ ImageExts \cap VideoExts = {}
    /\ ImageExts \cap DocumentExts = {}
    /\ RawExts \cap VideoExts = {}
    /\ RawExts \cap DocumentExts = {}
    /\ VideoExts \cap DocumentExts = {}

\* C21 witness: a file whose extension is spelled in upper case was
\* dispatched as a video.
C21_Witness ==
    /\ dExt = ".MP4"
    /\ dType = "video"
    /\ dPc = "video"

\* The job is a video job that _generate_video_thumbnail gave to a strategy of
\* the optimized module.
StrategyRan ==
    /\ get_file_type(dExt) = "video"
    /\ dFlags.video /\ dFlags.optimized /\ dFlags.use_optimized

\* C22: after an optimized generator that gave no pixmap, the standard
\* generator is attempted exactly when fallback_to_standard is true, and the
\* generic video icon follows at once when it is false.
C22_FallbackFollowsFlag ==
    (StrategyRan /\ dRet \in {"None", "null", "raise"}) =>
        /\ dPc = "standard_gen" => dFlags.fallback_to_standard
        /\ dPc = "generic_video" => ~dFlags.fallback_to_standard

\* C23: when _fast_frame_grab_method has opened a video of at least one
\* frame and its read and conversion succeeded, it returns a frame, and the
\* frame is the one at index min(max(0, frame_number), total_frames - 1).
C23_FrameIndexClamped ==
    (/\ dPc = "strategy_ret"
     /\ dFlags.method = "fast_frame_grab"
     /\ dVideo.openable /\ dVideo.total_frames >= 1
     /\ dGrab.rd = "frame" /\ dGrab.cv = "ok") =>
        /\ dRet = "frame"
        /\ dGrab.index = Min(Max(0, dFlags.frame_number),
                             dVideo.total_frames - 1)

\* C24: when no thread is inside generate_video_thumbnail, its cache holds
\* at most 50 entries, which are the most recently inserted ones, and no
\* call that generated its thumbnail has returned the fallback.
C24_MemoBounded ==
    (\A t \in MemoThreads : sPc[t] = "idle") =>
        /\ Len(stdCache) <= StdCacheLimit
        /\ \A i \in 1..Len(stdCache) :
              stdCache[i] = sCalls - Len(stdCache) + i
        /\ sFallback = {}

\* The step in which clear() returns: the queue was found empty.
ClearReturns == uiPc = "cl_queue" /\ uiPc' = "idle"

C26_NoSubscriberOutsideEpisode ==
    Quiescent =>
        \A k \in Keys : k \notin loading => callbacks[k] = 0

\* The jobs outstanding for key k: in the queue, or in the batch of a worker.
RECURSIVE Occurrences(_, _)
Occurrences(seq, k) ==
    IF seq = <<>> THEN 0
    ELSE (IF Head(seq) = k THEN 1 ELSE 0) + Occurrences(Tail(seq), k)

RECURSIVE InBatches(_, _)
InBatches(ws, k) ==
    IF ws = {} THEN 0
    ELSE LET w == CHOOSE x \in ws : TRUE
         IN  Occurrences(files_to_process[w], k) + InBatches(ws \ {w}, k)

Outstanding(k) == Occurrences(queue, k) + InBatches(Workers, k)

\* C27: when the UI thread is between operations and no worker is inside a
\* job, a key is in the loading set exactly when one job for it is
\* outstanding, and no key has two outstanding jobs.
C27_LoadingIffOneJob ==
    (uiPc = "idle" /\ \A w \in Workers : wPc[w] = "fill") =>
        \A k \in Keys :
            /\ Outstanding(k) <= 1
            /\ k \in loading <=> Outstanding(k) = 1

\* A step taken by a cache worker thread: the position of a worker in
\* _worker changes in every worker step and in no step of the UI thread.
OnWorkerThread == mPc' # mPc

\* C28: the state of an item widget (the bitmap it displays and its
\* thumbnail_loaded flag) changes only in steps of the UI thread; no step
\* of a cache worker thread changes it.
C28_WidgetStateOnlyOnUIThread ==
    [][(\E wd \in Widgets :
            \/ widgets'[wd].shown # widgets[wd].shown
            \/ widgets'[wd].thumbnail_loaded # widgets[wd].thumbnail_loaded
            \/ widgets'[wd].applied # widgets[wd].applied)
        => ~OnWorkerThread]_vars

\* C29: once the panel has a model, a scan_directory leaves the model's
\* files ordered by the sort most recently requested with sort_files, that
\* is by the panel's current key and order, also when sort_files was called
\* while the list was empty.
C29_ScanKeepsRequestedSort ==
    [][(\E file_types \in TypeFilters : HandleScanClicked(file_types))
        => Ordered(files', current_sort_key, current_sort_order)]_vars

\* C30: at any time at most one monitor thread of the detector is alive.
C30_AtMostOneMonitor ==
    Cardinality({t \in Monitors : IsAlive(t)}) <= 1

\* A step in which monitor thread t ends a _check_for_changes.
PollStep(t) == monPc[t] = "in_lock" /\ monPc'[t] = "test"

\* stop() has returned, or start() was never called, and no start() has
\* been called since.
Stopped == ~running /\ mainPc = "idle"

\* stop() is inside join while the thread it joins waits for the lock that
\* stop() holds.
StopWaitsOnBlocked == mainPc = "join" /\ monPc[thread] = "wait_lock"

\* C31: while the detector is stopped no poll emits a signal and
\* _current_cards does not change, and stop() never waits in join for a
\* monitor thread that waits for the lock stop() holds.
C31_SilentAfterStop ==
    /\ [][Stopped =>
            /\ current_cards' = current_cards
            /\ \A t \in Monitors : PollStep(t) => emitted' = NoSignals]_vars
    /\ [](~StopWaitsOnBlocked)

\* C32: in every poll card_inserted is emitted only for a path that is not
\* in _current_cards and whose last signal was not card_inserted,
\* card_removed only for a path that is in _current_cards (from an earlier
\* poll or from this one) and whose last signal was card_inserted, and the
\* poll leaves _current_cards equal to the polled drives that are available.
C32_SignalsAlternate ==
    [][\A t \in Monitors : PollStep(t) =>
          /\ \A p \in emitted'.card_inserted :
                p \notin current_cards /\ lastEvent[p] # "inserted"
          /\ \A p \in emitted'.card_removed :
                \/ p \in emitted'.card_inserted
                \/ p \in current_cards /\ lastEvent[p] = "inserted"
          /\ \A p \in Paths :
                p \in current_cards' <=> lastEvent'[p] = "inserted"
          /\ current_cards' = new_cards[t] \cap available]_vars

\* A card that an earlier poll reported as inserted is reported as removed
\* by the latest poll and is no longer in _current_cards.
C32_Witness ==
    \E p \in Paths :
        /\ emitted.card_removed = {p}
        /\ emitted.card_inserted = {}
        /\ emitted.cards_updated
        /\ lastEvent[p] = "removed"
        /\ p \notin current_cards

C20_CapturesReleased ==
    dPc = "strategy_ret" => dCaps = 0

====
